---- MODULE Spec2Model ----
(***************************************************************************)
(* Model of the note-storage adapter of notedok-web-service                *)
(* (src/app/s3connect.go): saveFileContent, getFileContent, renameFile and *)
(* deleteFile, run by concurrent request handlers against one S3 bucket.   *)
(*                                                                         *)
(* Strings are sequences of one-character strings, so that key building    *)
(* (prefix + fileName) and url.QueryEscape are computed, not assumed.      *)
(* Every S3 request is one atomic step of the bucket.  A request that      *)
(* fails for a reason the code does not recognise has no effect on the     *)
(* bucket.  The ETag of an object is a function of its content (S3's MD5   *)
(* ETag of a single-part object).  S3 answers a delete of an absent key    *)
(* with success, decodes "+" in x-amz-copy-source as a space, and rejects  *)
(* a copy of an object onto itself that changes nothing (InvalidRequest).  *)
(* Every object has a LastModified time; the clock is not modelled, and an *)
(* object written during a run carries the time 0.                         *)
(***************************************************************************)
EXTENDS Integers, Sequences, FiniteSets, TLC

VARIABLES store, store0, pc, call, res, before, touched, list, scn, http

vars == <<store, store0, pc, call, res, before, touched, list, scn, http>>

(***************************************************************************)
(* Bounds                                                                  *)
(***************************************************************************)
MaxContentLen == 1
MaxPageSize == 2

\* the concurrent request handlers
Procs == {"h1", "h2"}

\* userId + "/" of the authenticated user (storageapi.go: prefix := userId + "/")
userId == <<"u">>

\* the file names the handlers are called with
FileNames ==
  { <<"a", ".", "m", "d">>,
    <<"a", " ", "b", ".", "t", "x", "t">>,
    <<"a", "+", "b", ".", "t", "x", "t">> }

RECURSIVE Repeat(_, _)
Repeat(c, n) == IF n = 0 THEN <<>> ELSE <<c>> \o Repeat(c, n - 1)

\* note contents: "", "x", "xx", ...
Contents == { Repeat("x", n) : n \in 0..MaxContentLen }

(***************************************************************************)
(* Error values (s3connect.go:17-23); NoError is Go's nil error            *)
(***************************************************************************)
NoError == "nil"
ErrServiceUnavailable == "service unavailable"
ErrInvalidArgument == "invalid argument"
ErrNotFound == "not found"
ErrNotModified == "not modified"
ErrAlreadyExists == "already exists"

(***************************************************************************)
(* Outcomes the environment chooses for one request (the fault argument):  *)
(*   "none"      the request reaches S3 and S3 answers by its rules        *)
(*   "config"    config.LoadDefaultConfig fails                            *)
(*   "store"     the request fails with an error the code does not         *)
(*               recognise, and has no effect                              *)
(*   "body"      GetObject succeeds and reading the body fails             *)
(*   "nosuchkey" the store answers a delete of an absent key with          *)
(*               NoSuchKey (S3 itself answers it with success)             *)
(***************************************************************************)

(***************************************************************************)
(* The bucket: a partial function from keys to objects                     *)
(***************************************************************************)
NoObject == [content |-> <<>>, etag |-> <<>>, lastModified |-> 0]

S3ETag(content) == <<"e">> \o content

ObjectAt(st, key) == IF key \in DOMAIN st THEN st[key] ELSE NoObject

Exists(st, key) == key \in DOMAIN st

StorePut(st, key, content) ==
  [k \in (DOMAIN st) \cup {key} |->
     IF k = key THEN [content |-> content, etag |-> S3ETag(content), lastModified |-> 0]
     ELSE st[k]]

StoreRemove(st, key) == [k \in (DOMAIN st) \ {key} |-> st[k]]

ETags == {<<>>} \cup { S3ETag(c) : c \in Contents }

(***************************************************************************)
(* net/url.QueryEscape, and the decoding S3 applies to x-amz-copy-source   *)
(***************************************************************************)
Unreserved == {"a", "b", "d", "e", "m", "t", "u", "x", ".", "-", "_", "~"}

HexOf(c) ==
  CASE c = " " -> <<"2", "0">>
    [] c = "+" -> <<"2", "B">>
    [] c = "%" -> <<"2", "5">>
    [] c = "/" -> <<"2", "F">>
    [] OTHER   -> <<"3", "F">>

CharOfHex(h) ==
  CASE h = <<"2", "0">> -> " "
    [] h = <<"2", "B">> -> "+"
    [] h = <<"2", "5">> -> "%"
    [] h = <<"2", "F">> -> "/"
    [] OTHER            -> "?"

\* url.PathEscape in the place of url.QueryEscape: a space becomes %20 and
\* "+" is left alone
RECURSIVE PathEscape(_)
PathEscape(s) ==
  IF s = <<>> THEN <<>>
  ELSE LET c == Head(s)
           e == IF c \in Unreserved \cup {"+"} THEN <<c>>
                ELSE <<"%">> \o HexOf(c)
       IN e \o PathEscape(Tail(s))

\* a string with nothing to escape is returned as it is
RECURSIVE QueryEscape(_)
QueryEscape(s) ==
  IF \A i \in 1..Len(s) : s[i] \in Unreserved THEN s
  ELSE LET c == Head(s)
           e == IF c = " " THEN <<"+">>
                ELSE IF c \in Unreserved THEN <<c>>
                ELSE <<"%">> \o HexOf(c)
       IN e \o QueryEscape(Tail(s))

\* S3 URL-decodes the copy source: "+" is a space, %XX is one character
RECURSIVE S3UrlDecode(_)
S3UrlDecode(s) ==
  IF \A i \in 1..Len(s) : s[i] \notin {"+", "%"} THEN s
  ELSE IF Head(s) = "+" THEN <<" ">> \o S3UrlDecode(Tail(s))
  ELSE IF Head(s) = "%" /\ Len(s) >= 3
       THEN <<CharOfHex(SubSeq(s, 2, 3))>> \o S3UrlDecode(SubSeq(s, 4, Len(s)))
  ELSE <<Head(s)>> \o S3UrlDecode(Tail(s))

\* the key of a decoded "bucket/key" copy source: what follows the first "/"
RECURSIVE AfterFirstSlash(_)
AfterFirstSlash(s) ==
  IF s = <<>> THEN <<>>
  ELSE IF Head(s) = "/" THEN Tail(s)
  ELSE AfterFirstSlash(Tail(s))

S3CopySourceKey(source) == AfterFirstSlash(S3UrlDecode(source))

(***************************************************************************)
(* strings.HasPrefix, strings.HasSuffix, strings.CutPrefix and             *)
(* strings.Contains                                                        *)
(***************************************************************************)
HasPrefix(s, pre) == Len(s) >= Len(pre) /\ SubSeq(s, 1, Len(pre)) = pre

HasSuffix(s, suf) ==
  Len(s) >= Len(suf) /\ SubSeq(s, Len(s) - Len(suf) + 1, Len(s)) = suf

CutPrefix(s, pre) == IF HasPrefix(s, pre) THEN SubSeq(s, Len(pre) + 1, Len(s)) ELSE s

Contains(s, sub) ==
  \E i \in 1..(Len(s) + 1) :
    i + Len(sub) - 1 <= Len(s) /\ SubSeq(s, i, i + Len(sub) - 1) = sub

\* s3connect.go: isSupportedFileType
isSupportedFileType(fileName) ==
  HasSuffix(fileName, <<".", "t", "x", "t">>) \/ HasSuffix(fileName, <<".", "m", "d">>)

\* isFileNameValid without the test for "/"
isFileNameValid_NoSlashTest(fileName) ==
  /\ Len(fileName) <= 200
  /\ \/ HasSuffix(fileName, <<".", "t", "x", "t">>) /\ Len(fileName) > 4
     \/ HasSuffix(fileName, <<".", "m", "d">>) /\ Len(fileName) > 3

\* validation.go: isFileNameValid
isFileNameValid(fileName) ==
  /\ Len(fileName) <= 200
  /\ \/ HasSuffix(fileName, <<".", "t", "x", "t">>) /\ Len(fileName) > 4
     \/ HasSuffix(fileName, <<".", "m", "d">>) /\ Len(fileName) > 3
  /\ ~Contains(fileName, <<"/">>)

(***************************************************************************)
(* ListObjectsV2.  S3 lists the keys that start with the prefix in the     *)
(* binary order of their bytes, at most MaxKeys of them, and says if more  *)
(* follow.  A continuation token is opaque to the caller; here it is "+"   *)
(* followed by the last key of the page, and any other non-empty string    *)
(* is answered with InvalidArgument, as is a negative MaxKeys.             *)
(***************************************************************************)
CharCode(c) ==
  CASE c = " " -> 32 [] c = "+" -> 43 [] c = "." -> 46 [] c = "/" -> 47
    [] c = "a" -> 97 [] c = "b" -> 98 [] c = "d" -> 100 [] c = "m" -> 109
    [] c = "t" -> 116 [] c = "u" -> 117 [] c = "v" -> 118 [] c = "x" -> 120
    [] OTHER -> 63

RECURSIVE KeyLess(_, _)
KeyLess(a, b) ==
  IF a = <<>> THEN b # <<>>
  ELSE IF b = <<>> THEN FALSE
  ELSE IF Head(a) = Head(b) THEN KeyLess(Tail(a), Tail(b))
  ELSE CharCode(Head(a)) < CharCode(Head(b))

RECURSIVE SortedKeys(_)
SortedKeys(S) ==
  IF S = {} THEN <<>>
  ELSE LET k == CHOOSE x \in S : \A y \in S \ {x} : KeyLess(x, y)
       IN <<k>> \o SortedKeys(S \ {k})

ContinuationTokenOf(key) == <<"+">> \o key

IsContinuationToken(token) == token # <<>> /\ Head(token) = "+"

NoToken == [present |-> FALSE, value |-> <<>>]

S3ListObjectsV2(st, pre, maxKeys, token, fault) ==
  IF fault = "store"
  THEN [code |-> "Other", contents |-> <<>>, isTruncated |-> FALSE, next |-> NoToken]
  ELSE IF (token # <<>> /\ ~IsContinuationToken(token)) \/ maxKeys < 0
  THEN [code |-> "InvalidArgument", contents |-> <<>>, isTruncated |-> FALSE,
        next |-> NoToken]
  ELSE LET rest == SortedKeys({ k \in DOMAIN st :
                                  /\ HasPrefix(k, pre)
                                  /\ token # <<>> => KeyLess(Tail(token), k) })
           n    == IF maxKeys < Len(rest) THEN maxKeys ELSE Len(rest)
       IN [code |-> "OK",
           contents |-> [i \in 1..n |->
                          [key |-> rest[i], etag |-> st[rest[i]].etag,
                           lastModified |-> st[rest[i]].lastModified]],
           isTruncated |-> n < Len(rest),
           next |-> IF n < Len(rest)
                    THEN [present |-> TRUE, value |-> ContinuationTokenOf(rest[n])]
                    ELSE NoToken]

(***************************************************************************)
(* The S3 requests the code issues.  Each returns the bucket after the     *)
(* request, the API error code ("OK" when there is none) and the output    *)
(* fields the code reads.                                                  *)
(***************************************************************************)
S3PutObject(st, key, body, ifNoneMatch, fault) ==
  IF fault = "store" THEN [store |-> st, code |-> "Other", etag |-> <<>>]
  ELSE IF ifNoneMatch = <<"*">> /\ Exists(st, key)
       THEN [store |-> st, code |-> "PreconditionFailed", etag |-> <<>>]
  ELSE [store |-> StorePut(st, key, body), code |-> "OK", etag |-> S3ETag(body)]

S3GetObject(st, key, ifNoneMatch, fault) ==
  IF fault = "store" THEN [code |-> "Other", body |-> <<>>, etag |-> <<>>]
  ELSE IF ~Exists(st, key) THEN [code |-> "NoSuchKey", body |-> <<>>, etag |-> <<>>]
  ELSE IF ifNoneMatch # <<>> /\ ifNoneMatch = st[key].etag
       THEN [code |-> "NotModified", body |-> <<>>, etag |-> <<>>]
  ELSE [code |-> "OK", body |-> st[key].content, etag |-> st[key].etag]

S3CopyObject(st, source, key, fault) ==
  LET src == S3CopySourceKey(source)
  IN IF fault = "store" THEN [store |-> st, code |-> "Other", etag |-> <<>>]
     ELSE IF ~Exists(st, src) THEN [store |-> st, code |-> "NoSuchKey", etag |-> <<>>]
     ELSE IF src = key
          \* S3 rejects a copy of an object onto itself that changes nothing
          THEN [store |-> st, code |-> "InvalidRequest", etag |-> <<>>]
     ELSE [store |-> StorePut(st, key, st[src].content), code |-> "OK",
           etag |-> S3ETag(st[src].content)]

S3DeleteObject(st, key, fault) ==
  IF fault = "store" THEN [store |-> st, code |-> "Other"]
  ELSE IF fault = "nosuchkey" /\ ~Exists(st, key) THEN [store |-> st, code |-> "NoSuchKey"]
  ELSE [store |-> StoreRemove(st, key), code |-> "OK"]

(***************************************************************************)
(* The storage functions of s3connect.go.  Each returns the bucket after   *)
(* the call, the Go error, the fields of the result struct, and reqs, the  *)
(* S3 requests it issued.                                                  *)
(***************************************************************************)
bucket == <<"b">>

Failed(st, err, reqs) ==
  [store |-> st, err |-> err, etag |-> <<>>, content |-> <<>>, reqs |-> reqs]

ListFailed(err, reqs) ==
  [err |-> err, files |-> <<>>, hasMore |-> FALSE, next |-> <<>>, reqs |-> reqs]

\* the loop of listFiles that leaves the prefix in the file name
FilesOf_NoCutPrefix(contents, pre) ==
  LET Supported(obj) == isSupportedFileType(obj.key)
      kept == SelectSeq(contents, Supported)
  IN [i \in 1..Len(kept) |->
        [fileName |-> kept[i].key,
         lastModified |-> kept[i].lastModified, etag |-> kept[i].etag]]

\* the loop of listFiles over output.Contents
FilesOf(contents, pre) ==
  LET Supported(obj) == isSupportedFileType(obj.key)
      kept == SelectSeq(contents, Supported)
  IN [i \in 1..Len(kept) |->
        [fileName |-> CutPrefix(kept[i].key, pre),
         lastModified |-> kept[i].lastModified, etag |-> kept[i].etag]]

\* listFiles that never sets input.ContinuationToken
listFiles_NoToken(st, pre, pageSize, continuationToken, fault) ==
  IF fault = "config" THEN ListFailed(ErrServiceUnavailable, <<>>)
  ELSE LET output == S3ListObjectsV2(st, pre, pageSize, <<>>, fault)
           reqs   == <<"ListObjectsV2">>
       IN IF output.code = "InvalidArgument" THEN ListFailed(ErrInvalidArgument, reqs)
          ELSE IF output.code # "OK" THEN ListFailed(ErrServiceUnavailable, reqs)
          ELSE [err |-> NoError,
                files |-> FilesOf(output.contents, pre),
                hasMore |-> output.isTruncated,
                next |-> IF output.next.present THEN output.next.value ELSE <<>>,
                reqs |-> reqs]

\* listFiles that says there is more when the page of files is full
listFiles_HasMoreWhenFull(st, pre, pageSize, continuationToken, fault) ==
  IF fault = "config" THEN ListFailed(ErrServiceUnavailable, <<>>)
  ELSE LET output == S3ListObjectsV2(st, pre, pageSize, continuationToken, fault)
           reqs   == <<"ListObjectsV2">>
       IN IF output.code = "InvalidArgument" THEN ListFailed(ErrInvalidArgument, reqs)
          ELSE IF output.code # "OK" THEN ListFailed(ErrServiceUnavailable, reqs)
          ELSE [err |-> NoError,
                files |-> FilesOf(output.contents, pre),
                hasMore |-> Len(FilesOf(output.contents, pre)) = pageSize,
                next |-> IF output.next.present THEN output.next.value ELSE <<>>,
                reqs |-> reqs]

listFiles(st, pre, pageSize, continuationToken, fault) ==
  IF fault = "config" THEN ListFailed(ErrServiceUnavailable, <<>>)
  ELSE LET output == S3ListObjectsV2(st, pre, pageSize, continuationToken, fault)
           reqs   == <<"ListObjectsV2">>
       IN IF output.code = "InvalidArgument" THEN ListFailed(ErrInvalidArgument, reqs)
          ELSE IF output.code # "OK" THEN ListFailed(ErrServiceUnavailable, reqs)
          ELSE [err |-> NoError,
                files |-> FilesOf(output.contents, pre),
                hasMore |-> output.isTruncated,
                next |-> IF output.next.present THEN output.next.value ELSE <<>>,
                reqs |-> reqs]

\* handleGetFiles, "pack result": the body of the response to a listFiles result
getFilesDataOut(result) ==
  LET Valid(file) == isFileNameValid(file.fileName)
  IN [files |-> SelectSeq(result.files, Valid),
      hasMore |-> result.hasMore,
      nextContinuationToken |-> QueryEscape(result.next)]

\* getFileContent that answers any non-empty etag with ErrNotModified
getFileContent_AnyEtagMatches(st, prefix, fileName, etag, fault) ==
  IF fault = "config" THEN Failed(st, ErrServiceUnavailable, <<>>)
  ELSE LET key    == prefix \o fileName
           output == S3GetObject(st, key, <<>>, fault)
           reqs   == <<"GetObject">>
       IN IF output.code = "NoSuchKey" THEN Failed(st, ErrNotFound, reqs)
          ELSE IF output.code = "OK" /\ etag # <<>> THEN Failed(st, ErrNotModified, reqs)
          ELSE IF output.code # "OK" THEN Failed(st, ErrServiceUnavailable, reqs)
          ELSE IF fault = "body" THEN Failed(st, ErrServiceUnavailable, reqs)
          ELSE [store |-> st, err |-> NoError, etag |-> output.etag,
                content |-> output.body, reqs |-> reqs]

\* getFileContent that never sets IfNoneMatch
getFileContent_NoIfNoneMatch(st, prefix, fileName, etag, fault) ==
  IF fault = "config" THEN Failed(st, ErrServiceUnavailable, <<>>)
  ELSE LET key    == prefix \o fileName
           output == S3GetObject(st, key, <<>>, fault)
           reqs   == <<"GetObject">>
       IN IF output.code = "NoSuchKey" THEN Failed(st, ErrNotFound, reqs)
          ELSE IF output.code = "NotModified" THEN Failed(st, ErrNotModified, reqs)
          ELSE IF output.code # "OK" THEN Failed(st, ErrServiceUnavailable, reqs)
          ELSE IF fault = "body" THEN Failed(st, ErrServiceUnavailable, reqs)
          ELSE [store |-> st, err |-> NoError, etag |-> output.etag,
                content |-> output.body, reqs |-> reqs]

\* getFileContent that returns the caller's etag in the place of the object's
getFileContent_EchoEtag(st, prefix, fileName, etag, fault) ==
  IF fault = "config" THEN Failed(st, ErrServiceUnavailable, <<>>)
  ELSE LET key    == prefix \o fileName
           output == S3GetObject(st, key, etag, fault)
           reqs   == <<"GetObject">>
       IN IF output.code = "NoSuchKey" THEN Failed(st, ErrNotFound, reqs)
          ELSE IF output.code = "NotModified" THEN Failed(st, ErrNotModified, reqs)
          ELSE IF output.code # "OK" THEN Failed(st, ErrServiceUnavailable, reqs)
          ELSE IF fault = "body" THEN Failed(st, ErrServiceUnavailable, reqs)
          ELSE [store |-> st, err |-> NoError, etag |-> etag,
                content |-> output.body, reqs |-> reqs]

\* getFileContent that does not recognise the NoSuchKey error code
getFileContent_NoSuchKeyCode(st, prefix, fileName, etag, fault) ==
  IF fault = "config" THEN Failed(st, ErrServiceUnavailable, <<>>)
  ELSE LET key    == prefix \o fileName
           output == S3GetObject(st, key, etag, fault)
           reqs   == <<"GetObject">>
       IN IF output.code = "NotModified" THEN Failed(st, ErrNotModified, reqs)
          ELSE IF output.code # "OK" THEN Failed(st, ErrServiceUnavailable, reqs)
          ELSE IF fault = "body" THEN Failed(st, ErrServiceUnavailable, reqs)
          ELSE [store |-> st, err |-> NoError, etag |-> output.etag,
                content |-> output.body, reqs |-> reqs]

getFileContent(st, prefix, fileName, etag, fault) ==
  IF fault = "config" THEN Failed(st, ErrServiceUnavailable, <<>>)
  ELSE LET key    == prefix \o fileName
           output == S3GetObject(st, key, etag, fault)
           reqs   == <<"GetObject">>
       IN IF output.code = "NoSuchKey" THEN Failed(st, ErrNotFound, reqs)
          ELSE IF output.code = "NotModified" THEN Failed(st, ErrNotModified, reqs)
          ELSE IF output.code # "OK" THEN Failed(st, ErrServiceUnavailable, reqs)
          ELSE IF fault = "body" THEN Failed(st, ErrServiceUnavailable, reqs)
          ELSE [store |-> st, err |-> NoError, etag |-> output.etag,
                content |-> output.body, reqs |-> reqs]

\* saveFileContent that never sets IfNoneMatch
saveFileContent_NoPrecondition(st, prefix, fileName, content, overwrite, fault) ==
  IF fault = "config" THEN Failed(st, ErrServiceUnavailable, <<>>)
  ELSE LET key    == prefix \o fileName
           output == S3PutObject(st, key, content, <<>>, fault)
           reqs   == <<"PutObject">>
       IN IF output.code = "PreconditionFailed" THEN Failed(st, ErrAlreadyExists, reqs)
          ELSE IF output.code # "OK" THEN Failed(st, ErrServiceUnavailable, reqs)
          ELSE [store |-> output.store, err |-> NoError, etag |-> output.etag,
                content |-> <<>>, reqs |-> reqs]

\* saveFileContent that does not recognise the PreconditionFailed error code
saveFileContent_NoConflictCode(st, prefix, fileName, content, overwrite, fault) ==
  IF fault = "config" THEN Failed(st, ErrServiceUnavailable, <<>>)
  ELSE LET key    == prefix \o fileName
           output == S3PutObject(st, key, content,
                                 IF ~overwrite THEN <<"*">> ELSE <<>>, fault)
           reqs   == <<"PutObject">>
       IN IF output.code # "OK" THEN Failed(st, ErrServiceUnavailable, reqs)
          ELSE [store |-> output.store, err |-> NoError, etag |-> output.etag,
                content |-> <<>>, reqs |-> reqs]

\* saveFileContent with the test of overwrite inverted
saveFileContent_Inverted(st, prefix, fileName, content, overwrite, fault) ==
  IF fault = "config" THEN Failed(st, ErrServiceUnavailable, <<>>)
  ELSE LET key    == prefix \o fileName
           output == S3PutObject(st, key, content,
                                 IF overwrite THEN <<"*">> ELSE <<>>, fault)
           reqs   == <<"PutObject">>
       IN IF output.code = "PreconditionFailed" THEN Failed(st, ErrAlreadyExists, reqs)
          ELSE IF output.code # "OK" THEN Failed(st, ErrServiceUnavailable, reqs)
          ELSE [store |-> output.store, err |-> NoError, etag |-> output.etag,
                content |-> <<>>, reqs |-> reqs]

\* saveFileContent that returns the ETag of the object it replaced
saveFileContent_OldEtag(st, prefix, fileName, content, overwrite, fault) ==
  IF fault = "config" THEN Failed(st, ErrServiceUnavailable, <<>>)
  ELSE LET key    == prefix \o fileName
           output == S3PutObject(st, key, content,
                                 IF ~overwrite THEN <<"*">> ELSE <<>>, fault)
           reqs   == <<"PutObject">>
       IN IF output.code = "PreconditionFailed" THEN Failed(st, ErrAlreadyExists, reqs)
          ELSE IF output.code # "OK" THEN Failed(st, ErrServiceUnavailable, reqs)
          ELSE [store |-> output.store, err |-> NoError,
                etag |-> ObjectAt(st, key).etag,
                content |-> <<>>, reqs |-> reqs]

\* saveFileContent that puts the object and looks for a conflict afterwards
saveFileContent_PutFirst(st, prefix, fileName, content, overwrite, fault) ==
  IF fault = "config" THEN Failed(st, ErrServiceUnavailable, <<>>)
  ELSE LET key    == prefix \o fileName
           output == S3PutObject(st, key, content, <<>>, fault)
           reqs   == <<"PutObject">>
       IN IF ~overwrite /\ Exists(st, key)
          THEN Failed(output.store, ErrAlreadyExists, reqs)
          ELSE IF output.code # "OK" THEN Failed(st, ErrServiceUnavailable, reqs)
          ELSE [store |-> output.store, err |-> NoError, etag |-> output.etag,
                content |-> <<>>, reqs |-> reqs]

saveFileContent(st, prefix, fileName, content, overwrite, fault) ==
  IF fault = "config" THEN Failed(st, ErrServiceUnavailable, <<>>)
  ELSE LET key    == prefix \o fileName
           output == S3PutObject(st, key, content,
                                 IF ~overwrite THEN <<"*">> ELSE <<>>, fault)
           reqs   == <<"PutObject">>
       IN IF output.code = "PreconditionFailed" THEN Failed(st, ErrAlreadyExists, reqs)
          ELSE IF output.code # "OK" THEN Failed(st, ErrServiceUnavailable, reqs)
          ELSE [store |-> output.store, err |-> NoError, etag |-> output.etag,
                content |-> <<>>, reqs |-> reqs]

\* deleteFile that reports the NoSuchKey error code as "not found"
deleteFile_NotFound(st, prefix, fileName, fault) ==
  IF fault = "config" THEN Failed(st, ErrServiceUnavailable, <<>>)
  ELSE LET key    == prefix \o fileName
           output == S3DeleteObject(st, key, fault)
           reqs   == <<"DeleteObject">>
       IN IF output.code = "NoSuchKey" THEN Failed(st, ErrNotFound, reqs)
          ELSE IF output.code # "OK" THEN Failed(st, ErrServiceUnavailable, reqs)
          ELSE [store |-> output.store, err |-> NoError, etag |-> <<>>,
                content |-> <<>>, reqs |-> reqs]

\* deleteFile that does not swallow the NoSuchKey error code
deleteFile_NoSuchKeyFails(st, prefix, fileName, fault) ==
  IF fault = "config" THEN Failed(st, ErrServiceUnavailable, <<>>)
  ELSE LET key    == prefix \o fileName
           output == S3DeleteObject(st, key, fault)
           reqs   == <<"DeleteObject">>
       IN IF output.code # "OK" THEN Failed(st, ErrServiceUnavailable, reqs)
          ELSE [store |-> output.store, err |-> NoError, etag |-> <<>>,
                content |-> <<>>, reqs |-> reqs]

deleteFile(st, prefix, fileName, fault) ==
  IF fault = "config" THEN Failed(st, ErrServiceUnavailable, <<>>)
  ELSE LET key    == prefix \o fileName
           output == S3DeleteObject(st, key, fault)
           reqs   == <<"DeleteObject">>
       IN IF output.code = "NoSuchKey" THEN Failed(st, NoError, reqs)
          ELSE IF output.code # "OK" THEN Failed(st, ErrServiceUnavailable, reqs)
          ELSE [store |-> output.store, err |-> NoError, etag |-> <<>>,
                content |-> <<>>, reqs |-> reqs]

\* renameFile whose reservation passes overwrite = true
renameReserve_Overwrite(st, prefix, newFileName, fault) ==
  IF fault = "config" THEN Failed(st, ErrServiceUnavailable, <<>>)
  ELSE saveFileContent(st, prefix, newFileName, <<>>, TRUE, fault)

\* renameFile up to its first return: client setup and the reservation
renameReserve(st, prefix, newFileName, fault) ==
  IF fault = "config" THEN Failed(st, ErrServiceUnavailable, <<>>)
  ELSE saveFileContent(st, prefix, newFileName, <<>>, FALSE, fault)

\* renameFile that removes its reservation when the source is missing
renameCopy_Cleanup(st, prefix, fileName, newFileName, fault) ==
  LET source == bucket \o <<"/">> \o prefix \o QueryEscape(fileName)
      newKey == prefix \o newFileName
      output == S3CopyObject(st, source, newKey, fault)
      reqs   == <<"CopyObject">>
  IN IF output.code = "NoSuchKey"
     THEN Failed(StoreRemove(st, newKey), ErrNotFound, reqs)
     ELSE IF output.code # "OK" THEN Failed(st, ErrServiceUnavailable, reqs)
     ELSE [store |-> output.store, err |-> NoError, etag |-> output.etag,
           content |-> <<>>, reqs |-> reqs]

\* renameFile whose copy source leaves the prefix out
renameCopy_NoPrefix(st, prefix, fileName, newFileName, fault) ==
  LET source == bucket \o <<"/">> \o QueryEscape(fileName)
      newKey == prefix \o newFileName
      output == S3CopyObject(st, source, newKey, fault)
      reqs   == <<"CopyObject">>
  IN IF output.code = "NoSuchKey" THEN Failed(st, ErrNotFound, reqs)
     ELSE IF output.code # "OK" THEN Failed(st, ErrServiceUnavailable, reqs)
     ELSE [store |-> output.store, err |-> NoError, etag |-> output.etag,
           content |-> <<>>, reqs |-> reqs]

\* renameFile whose copy has the source and the new key exchanged
renameCopy_Exchanged(st, prefix, fileName, newFileName, fault) ==
  LET source == bucket \o <<"/">> \o prefix \o QueryEscape(newFileName)
      newKey == prefix \o fileName
      output == S3CopyObject(st, source, newKey, fault)
      reqs   == <<"CopyObject">>
  IN IF output.code = "NoSuchKey" THEN Failed(st, ErrNotFound, reqs)
     ELSE IF output.code # "OK" THEN Failed(st, ErrServiceUnavailable, reqs)
     ELSE [store |-> output.store, err |-> NoError, etag |-> output.etag,
           content |-> <<>>, reqs |-> reqs]

\* renameFile, the copy
renameCopy(st, prefix, fileName, newFileName, fault) ==
  LET source == bucket \o <<"/">> \o prefix \o QueryEscape(fileName)
      newKey == prefix \o newFileName
      output == S3CopyObject(st, source, newKey, fault)
      reqs   == <<"CopyObject">>
  IN IF output.code = "NoSuchKey" THEN Failed(st, ErrNotFound, reqs)
     ELSE IF output.code # "OK" THEN Failed(st, ErrServiceUnavailable, reqs)
     ELSE [store |-> output.store, err |-> NoError, etag |-> output.etag,
           content |-> <<>>, reqs |-> reqs]

\* renameFile with the test of the delete's error inverted
renameDelete_Inverted(st, prefix, fileName, etag, fault) ==
  LET key    == prefix \o fileName
      output == S3DeleteObject(st, key, fault)
      reqs   == <<"DeleteObject">>
  IN IF output.code = "OK" THEN Failed(output.store, ErrServiceUnavailable, reqs)
     ELSE [store |-> output.store, err |-> NoError, etag |-> etag,
           content |-> <<>>, reqs |-> reqs]

\* renameFile that does not look at the delete's error
renameDelete_IgnoreError(st, prefix, fileName, etag, fault) ==
  LET key    == prefix \o fileName
      output == S3DeleteObject(st, key, fault)
      reqs   == <<"DeleteObject">>
  IN [store |-> output.store, err |-> NoError, etag |-> etag,
      content |-> <<>>, reqs |-> reqs]

\* renameFile, the delete of the old file; etag is the copy's ETag
renameDelete(st, prefix, fileName, etag, fault) ==
  LET key    == prefix \o fileName
      output == S3DeleteObject(st, key, fault)
      reqs   == <<"DeleteObject">>
  IN IF output.code # "OK" THEN Failed(st, ErrServiceUnavailable, reqs)
     ELSE [store |-> output.store, err |-> NoError, etag |-> etag,
           content |-> <<>>, reqs |-> reqs]

\* renameFile that returns after the copy and leaves the old file
renameFile_NoDelete(st, prefix, fileName, newFileName, fault1, fault2, fault3) ==
  LET r1 == renameReserve(st, prefix, newFileName, fault1)
  IN IF r1.err # NoError THEN [r1 EXCEPT !.etag = <<>>]
     ELSE LET r2 == renameCopy(r1.store, prefix, fileName, newFileName, fault2)
          IN [r2 EXCEPT !.reqs = r1.reqs \o r2.reqs]

\* renameFile from entry to return, when no other request comes in between;
\* fault1, fault2 and fault3 are the outcomes of its three requests
renameFile(st, prefix, fileName, newFileName, fault1, fault2, fault3) ==
  LET r1 == renameReserve(st, prefix, newFileName, fault1)
  IN IF r1.err # NoError THEN [r1 EXCEPT !.etag = <<>>]
     ELSE LET r2 == renameCopy(r1.store, prefix, fileName, newFileName, fault2)
          IN IF r2.err # NoError THEN [r2 EXCEPT !.reqs = r1.reqs \o r2.reqs]
             ELSE LET r3 == renameDelete(r2.store, prefix, fileName, r2.etag, fault3)
                  IN [r3 EXCEPT !.reqs = r1.reqs \o r2.reqs \o r3.reqs]

(***************************************************************************)
(* The request handlers.  Each handler serves one HTTP request: it is idle *)
(* (its request has not reached the storage function), or inside           *)
(* renameFile between two S3 requests ("reserved", "copied"), or the       *)
(* storage function has returned ("done").  The bucket outlives the        *)
(* service, so the handlers start from any bucket content.                 *)
(*   store0   the bucket before any handler ran (for a client that issues  *)
(*            one request after the other: before its current request)     *)
(*   call     the storage function called and its arguments                *)
(*   res      what the storage function returned, the S3 requests it       *)
(*            issued and how the environment treated the last of them      *)
(*   before   the objects at the keys of the call's fileName (src) and     *)
(*            newFileName (tgt) when the call's first request ran          *)
(*   touched  which of the call's keys ("src", "tgt") another handler has  *)
(*            written or deleted since the call's first request ran        *)
(***************************************************************************)
NoName == <<>>

NoCall == [op |-> "none", fileName |-> NoName, newFileName |-> NoName,
           content |-> <<>>, overwrite |-> FALSE, etag |-> <<>>]

NoRes == [err |-> "pending", etag |-> <<>>, content |-> <<>>,
          reqs |-> <<>>, fault |-> "none"]

NoBefore == [src |-> NoObject, tgt |-> NoObject]

\* the pages a client has asked for: the arguments and the result of the last
\* listFiles call, how many calls were made, whether the first had an empty
\* continuation token, and seen, the files of all the pages so far
NoList == [pageSize |-> 0, cursor |-> <<>>, fromStart |-> FALSE, calls |-> 0,
           err |-> "pending", files |-> <<>>, hasMore |-> FALSE, next |-> <<>>,
           seen |-> <<>>, fault |-> "none"]

\* the run of a client through a fixed sequence of calls, one after the other:
\* the two file names and three contents it uses, how many calls have
\* returned, what each returned, and whether the environment failed a request
NoScn == [a |-> NoName, b |-> NoName, c1 |-> <<>>, c2 |-> <<>>, c3 |-> <<>>,
          step |-> 0, out |-> <<>>, faulty |-> FALSE]

\* the arguments a handler passes to its storage function
NoArgs == [fileName |-> NoName, newFileName |-> NoName, pageSize |-> 0,
           continuationToken |-> <<>>, etag |-> <<>>]

\* the response a handler writes: status code, body, ETag header
NoResponse == [status |-> 0, body |-> <<>>, etag |-> <<>>]

\* one HTTP request served by a handler of storageapi.go: the handler, what
\* was bound from the request (in), the validation that rejected it, the
\* storage function called with its arguments and its error, the response
NoHttp == [handler |-> "none", in |-> NoArgs, contentLen |-> 0,
           rejected |-> "none", called |-> "none", args |-> NoArgs,
           err |-> "none", resp |-> NoResponse, faults |-> <<>>]

prefix == userId \o <<"/">>

Key(fileName) == prefix \o fileName

\* the answer of a request r of handler p, after the requests the call issued before
Result(p, r, fault) ==
  [err |-> r.err, etag |-> r.etag, content |-> r.content,
   reqs |-> res[p].reqs \o r.reqs, fault |-> fault]

\* a request of handler p wrote or deleted the keys ks
Touch(p, ks) ==
  [q \in Procs |->
     IF q = p \/ pc[q] = "idle" THEN touched[q]
     ELSE touched[q]
            \cup (IF Key(call[q].fileName) \in ks THEN {"src"} ELSE {})
            \cup (IF call[q].op = "rename" /\ Key(call[q].newFileName) \in ks
                  THEN {"tgt"} ELSE {})]

Keys == { Key(f) : f \in FileNames }

Objects == { [content |-> c, etag |-> S3ETag(c), lastModified |-> 0] : c \in Contents }

Buckets == UNION { [D -> Objects] : D \in SUBSET Keys }

Init ==
  /\ store \in Buckets
  /\ store0 = store
  /\ pc = [p \in Procs |-> "idle"]
  /\ call = [p \in Procs |-> NoCall]
  /\ res = [p \in Procs |-> NoRes]
  /\ before = [p \in Procs |-> NoBefore]
  /\ touched = [p \in Procs |-> {}]
  /\ list = NoList
  /\ scn = NoScn
  /\ http = NoHttp

\* handlePutFile / handlePostFile: saveFileContent(_bucket, prefix, fileName, content, overwrite)
Write(p) ==
  /\ pc[p] = "idle"
  /\ \E fileName \in FileNames, content \in Contents, overwrite \in BOOLEAN,
        fault \in {"none", "config", "store"} :
       LET r == saveFileContent(store, prefix, fileName, content, overwrite, fault)
       IN /\ store' = r.store
          /\ pc' = [pc EXCEPT ![p] = "done"]
          /\ call' = [call EXCEPT ![p] = [NoCall EXCEPT !.op = "save",
                        !.fileName = fileName, !.content = content,
                        !.overwrite = overwrite]]
          /\ res' = [res EXCEPT ![p] = Result(p, r, fault)]
          /\ before' = [before EXCEPT ![p] =
                          [NoBefore EXCEPT !.src = ObjectAt(store, Key(fileName))]]
          /\ touched' = Touch(p, IF r.err = NoError THEN {Key(fileName)} ELSE {})
          /\ UNCHANGED <<store0, list, scn, http>>

\* handleGetFile: getFileContent(_bucket, prefix, fileName, etag)
Read(p) ==
  /\ pc[p] = "idle"
  /\ \E fileName \in FileNames, etag \in ETags,
        fault \in {"none", "config", "store", "body"} :
       LET r == getFileContent(store, prefix, fileName, etag, fault)
       IN /\ store' = r.store
          /\ pc' = [pc EXCEPT ![p] = "done"]
          /\ call' = [call EXCEPT ![p] = [NoCall EXCEPT !.op = "get",
                        !.fileName = fileName, !.etag = etag]]
          /\ res' = [res EXCEPT ![p] = Result(p, r, fault)]
          /\ before' = [before EXCEPT ![p] =
                          [NoBefore EXCEPT !.src = ObjectAt(store, Key(fileName))]]
          /\ UNCHANGED <<touched, store0, list, scn, http>>

\* handleDeleteFile: deleteFile(_bucket, prefix, fileName)
Delete(p) ==
  /\ pc[p] = "idle"
  /\ \E fileName \in FileNames, fault \in {"none", "config", "store", "nosuchkey"} :
       LET r == deleteFile(store, prefix, fileName, fault)
       IN /\ store' = r.store
          /\ pc' = [pc EXCEPT ![p] = "done"]
          /\ call' = [call EXCEPT ![p] = [NoCall EXCEPT !.op = "delete",
                        !.fileName = fileName]]
          /\ res' = [res EXCEPT ![p] = Result(p, r, fault)]
          /\ before' = [before EXCEPT ![p] =
                          [NoBefore EXCEPT !.src = ObjectAt(store, Key(fileName))]]
          /\ touched' = Touch(p, IF r.store # store THEN {Key(fileName)} ELSE {})
          /\ UNCHANGED <<store0, list, scn, http>>

\* handleRenameFile: renameFile(_bucket, prefix, fileName, newFileName),
\* from its entry to the answer of the reserving PutObject
RenameReserve(p) ==
  /\ pc[p] = "idle"
  /\ \E fileName \in FileNames, newFileName \in FileNames,
        fault \in {"none", "config", "store"} :
       LET r == renameReserve(store, prefix, newFileName, fault)
       IN /\ store' = r.store
          /\ pc' = [pc EXCEPT ![p] = IF r.err = NoError THEN "reserved" ELSE "done"]
          /\ call' = [call EXCEPT ![p] = [NoCall EXCEPT !.op = "rename",
                        !.fileName = fileName, !.newFileName = newFileName]]
          \* the ETag of the reservation is discarded (_, err = saveFileContent(...))
          /\ res' = [res EXCEPT ![p] =
                       [Result(p, r, fault) EXCEPT
                          !.etag = <<>>,
                          !.err = IF r.err = NoError THEN "pending" ELSE r.err]]
          /\ before' = [before EXCEPT ![p] =
                          [src |-> ObjectAt(store, Key(fileName)),
                           tgt |-> ObjectAt(store, Key(newFileName))]]
          /\ touched' = Touch(p, IF r.err = NoError THEN {Key(newFileName)} ELSE {})
          /\ UNCHANGED <<store0, list, scn, http>>

\* renameFile that issues the CopyObject request again when it failed
RenameCopy_Retry(p) ==
  /\ pc[p] = "reserved"
  /\ \E fault \in {"none", "store"} :
       LET r == renameCopy(store, prefix, call[p].fileName, call[p].newFileName, fault)
       IN /\ store' = r.store
          /\ pc' = [pc EXCEPT ![p] = IF r.err = NoError THEN "copied" ELSE "reserved"]
          \* on success the copy's ETag is kept in result and the call goes on
          /\ res' = [res EXCEPT ![p] =
                       [Result(p, r, fault) EXCEPT
                          !.err = IF r.err = NoError THEN "pending" ELSE r.err]]
          /\ touched' = Touch(p, IF r.err = NoError THEN {Key(call[p].newFileName)}
                                 ELSE {})
          /\ UNCHANGED <<call, before, store0, list, scn, http>>

\* renameFile: the CopyObject request and the handling of its answer
RenameCopy(p) ==
  /\ pc[p] = "reserved"
  /\ \E fault \in {"none", "store"} :
       LET r == renameCopy(store, prefix, call[p].fileName, call[p].newFileName, fault)
       IN /\ store' = r.store
          /\ pc' = [pc EXCEPT ![p] = IF r.err = NoError THEN "copied" ELSE "done"]
          \* on success the copy's ETag is kept in result and the call goes on
          /\ res' = [res EXCEPT ![p] =
                       [Result(p, r, fault) EXCEPT
                          !.err = IF r.err = NoError THEN "pending" ELSE r.err]]
          /\ touched' = Touch(p, IF r.err = NoError THEN {Key(call[p].newFileName)}
                                 ELSE {})
          /\ UNCHANGED <<call, before, store0, list, scn, http>>

\* renameFile: the DeleteObject request and the return
RenameDelete(p) ==
  /\ pc[p] = "copied"
  /\ \E fault \in {"none", "store", "nosuchkey"} :
       LET r == renameDelete(store, prefix, call[p].fileName, res[p].etag, fault)
       IN /\ store' = r.store
          /\ pc' = [pc EXCEPT ![p] = "done"]
          /\ res' = [res EXCEPT ![p] = Result(p, r, fault)]
          /\ touched' = Touch(p, IF r.store # store THEN {Key(call[p].fileName)}
                                 ELSE {})
          /\ UNCHANGED <<call, before, store0, list, scn, http>>

Next ==
  \E p \in Procs :
    \/ Write(p)
    \/ Read(p)
    \/ Delete(p)
    \/ RenameReserve(p)
    \/ RenameCopy(p)
    \/ RenameDelete(p)

Spec == Init /\ [][Next]_vars

(***************************************************************************)
(* Listing, and a client that issues one request after the other.  The     *)
(* bucket also holds objects the service did not create: keys under the    *)
(* user's prefix that are no notes (no supported suffix, a subfolder) and  *)
(* keys outside the prefix.                                                *)
(***************************************************************************)
PageSizes == 1..MaxPageSize

OtherKeys ==
  { prefix \o <<"b">>,
    prefix \o prefix \o <<"a", ".", "m", "d">>,
    <<"v", "/", "a", ".", "m", "d">>,
    <<"a", ".", "m", "d">> }

OtherObject == [content |-> <<"x">>, etag |-> S3ETag(<<"x">>), lastModified |-> 0]

AnyBuckets ==
  { [k \in (DOMAIN b) \cup D |-> IF k \in DOMAIN b THEN b[k] ELSE OtherObject] :
      b \in Buckets, D \in SUBSET OtherKeys }

\* the continuation tokens a client sends: none, one S3 never issued, and
\* tokens S3 issued for a page that ended at a note
Cursors == {<<>>, <<"x">>} \cup { ContinuationTokenOf(k) : k \in Keys }

\* handleGetFiles: listFiles(_bucket, prefix, pageSize, continuationToken)
List(p) ==
  /\ pc[p] = "idle"
  /\ \E pageSize \in PageSizes, continuationToken \in Cursors,
        fault \in {"none", "config", "store"} :
       LET r == listFiles(store, prefix, pageSize, continuationToken, fault)
       IN /\ pc' = [pc EXCEPT ![p] = "done"]
          /\ call' = [call EXCEPT ![p] = [NoCall EXCEPT !.op = "list"]]
          /\ res' = [res EXCEPT ![p] =
                       [NoRes EXCEPT !.err = r.err, !.reqs = r.reqs, !.fault = fault]]
          /\ list' = [pageSize |-> pageSize, cursor |-> continuationToken,
                      fromStart |-> continuationToken = <<>>, calls |-> 1,
                      err |-> r.err, files |-> r.files, hasMore |-> r.hasMore,
                      next |-> r.next, seen |-> r.files, fault |-> fault]
          /\ UNCHANGED <<store, store0, before, touched, scn, http>>

\* the client's next request, with the token the last page returned
ListMore(p) ==
  /\ pc[p] = "done" /\ call[p].op = "list"
  /\ list.err = NoError /\ list.hasMore
  /\ \E fault \in {"none", "config", "store"} :
       LET r == listFiles(store, prefix, list.pageSize, list.next, fault)
       IN /\ res' = [res EXCEPT ![p] =
                       [NoRes EXCEPT !.err = r.err, !.reqs = r.reqs, !.fault = fault]]
          /\ list' = [list EXCEPT !.cursor = list.next, !.calls = list.calls + 1,
                        !.err = r.err, !.files = r.files, !.hasMore = r.hasMore,
                        !.next = r.next, !.seen = list.seen \o r.files,
                        !.fault = fault]
          /\ UNCHANGED <<store, store0, pc, call, before, touched, scn, http>>

\* the response is sent; the handler serves the client's next request, and
\* store0 is from now on the bucket that request starts from
Return(p) ==
  /\ pc[p] = "done"
  /\ store0' = store
  /\ pc' = [pc EXCEPT ![p] = "idle"]
  /\ call' = [call EXCEPT ![p] = NoCall]
  /\ res' = [res EXCEPT ![p] = NoRes]
  /\ before' = [before EXCEPT ![p] = NoBefore]
  /\ touched' = [touched EXCEPT ![p] = {}]
  /\ list' = NoList
  /\ UNCHANGED <<store, scn, http>>

AnyInit ==
  /\ store \in AnyBuckets
  /\ store0 = store
  /\ pc = [p \in Procs |-> "idle"]
  /\ call = [p \in Procs |-> NoCall]
  /\ res = [p \in Procs |-> NoRes]
  /\ before = [p \in Procs |-> NoBefore]
  /\ touched = [p \in Procs |-> {}]
  /\ list = NoList
  /\ scn = NoScn
  /\ http = NoHttp

\* one client paging through the notes of a bucket nobody writes
ListNext == List("h1") \/ ListMore("h1")

ListSpec == AnyInit /\ [][ListNext]_vars /\ WF_vars(ListNext)

\* one client issuing any requests, one after the other
ClientNext ==
  \/ Write("h1")
  \/ Read("h1")
  \/ Delete("h1")
  \/ RenameReserve("h1")
  \/ RenameCopy("h1")
  \/ RenameDelete("h1")
  \/ List("h1")
  \/ ListMore("h1")
  \/ Return("h1")

ClientSpec == AnyInit /\ [][ClientNext]_vars

(***************************************************************************)
(* A client that runs a fixed sequence of calls on a namespace that starts *)
(* empty: three writes of the file a (create-only, create-only,            *)
(* overwrite), the rename of a to b, a read of a and a read of b.          *)
(***************************************************************************)
ScenarioNames == { <<"a", ".", "t", "x", "t">>, <<"b", ".", "t", "x", "t">> }

ScenarioContents ==
  { <<"h", "e", "l", "l", "o">>, <<"x">>, <<"w", "o", "r", "l", "d">> }

\* the buckets with no key under the user's prefix
EmptyNamespaces ==
  { b \in AnyBuckets : \A k \in DOMAIN b : ~HasPrefix(k, prefix) }

ScenarioInit ==
  /\ store \in EmptyNamespaces
  /\ store0 = store
  /\ pc = [p \in Procs |-> "idle"]
  /\ call = [p \in Procs |-> NoCall]
  /\ res = [p \in Procs |-> NoRes]
  /\ before = [p \in Procs |-> NoBefore]
  /\ touched = [p \in Procs |-> {}]
  /\ list = NoList
  /\ \E a \in ScenarioNames, b \in ScenarioNames,
        c1 \in ScenarioContents, c2 \in ScenarioContents, c3 \in ScenarioContents :
       scn = [NoScn EXCEPT !.a = a, !.b = b, !.c1 = c1, !.c2 = c2, !.c3 = c3]
  /\ http = NoHttp

\* the call has returned r; fault tells if the environment failed a request
ScenarioStep(r, fault) ==
  /\ store' = r.store
  /\ scn' = [scn EXCEPT !.step = scn.step + 1,
                        !.out = Append(scn.out, [err |-> r.err, etag |-> r.etag,
                                                 content |-> r.content]),
                        !.faulty = scn.faulty \/ fault]
  /\ UNCHANGED <<store0, pc, call, res, before, touched, list, http>>

\* calls 1 to 3: saveFileContent(a, c1, false), (a, c2, false), (a, c3, true)
ScenarioWrite ==
  /\ scn.step \in {0, 1, 2}
  /\ \E fault \in {"none", "store"} :
       LET content == IF scn.step = 0 THEN scn.c1
                      ELSE IF scn.step = 1 THEN scn.c2 ELSE scn.c3
           r == saveFileContent(store, prefix, scn.a, content, scn.step = 2, fault)
       IN ScenarioStep(r, fault # "none")

\* call 4: renameFile(a, b)
ScenarioRename ==
  /\ scn.step = 3
  /\ \E fault1 \in {"none", "store"}, fault2 \in {"none", "store"},
        fault3 \in {"none", "store"} :
       LET r == renameFile(store, prefix, scn.a, scn.b, fault1, fault2, fault3)
       IN ScenarioStep(r, <<fault1, fault2, fault3>> # <<"none", "none", "none">>)

\* calls 5 and 6: getFileContent(a, ""), getFileContent(b, "")
ScenarioRead ==
  /\ scn.step \in {4, 5}
  /\ \E fault \in {"none", "store"} :
       LET r == getFileContent(store, prefix, IF scn.step = 4 THEN scn.a ELSE scn.b,
                               <<>>, fault)
       IN ScenarioStep(r, fault # "none")

ScenarioNext == ScenarioWrite \/ ScenarioRename \/ ScenarioRead

ScenarioSpec == ScenarioInit /\ [][ScenarioNext]_vars

(***************************************************************************)
(* The HTTP handlers of storageapi.go.  A handler binds its inputs from    *)
(* the request, validates them (validation.go), unescapes the names, calls *)
(* its storage function and writes the response.                           *)
(***************************************************************************)
\* a string of n characters
Xs(n) == [i \in 1..n |-> "x"] \o <<>>

IsHex(c) ==
  c \in {"0", "1", "2", "3", "4", "5", "6", "7", "8", "9",
         "a", "b", "c", "d", "e", "f", "A", "B", "C", "D", "E", "F"}

RECURSIVE Unescaped(_)
Unescaped(s) ==
  IF s = <<>> THEN <<>>
  ELSE IF Head(s) = "%"
       THEN <<CharOfHex(SubSeq(s, 2, 3))>> \o Unescaped(SubSeq(s, 4, Len(s)))
  ELSE <<Head(s)>> \o Unescaped(Tail(s))

\* net/url.PathUnescape: a string without "%" is returned as it is, a "%" not
\* followed by two hex digits is an error, %XX becomes one character and
\* "+" stays "+"
PathUnescape(s) ==
  IF \A i \in 1..Len(s) : s[i] # "%" THEN [ok |-> TRUE, value |-> s]
  ELSE IF \E i \in 1..Len(s) :
            s[i] = "%" /\ ~(i + 2 <= Len(s) /\ IsHex(s[i + 1]) /\ IsHex(s[i + 2]))
       THEN [ok |-> FALSE, value |-> <<>>]
  ELSE [ok |-> TRUE, value |-> Unescaped(s)]

\* validation.go
isPageSizeValid(pageSize) == pageSize <= 1000

isContinuationTokenValid(continuationToken) == Len(continuationToken) <= 1000

isEtagValid(etag) == Len(etag) <= 100

isContentValid(content) == Len(content) <= 102400

PAGE_SIZE_DEFAULT == 100

\* the response helpers
toPlainTextWithEtag(content, etag) == [status |-> 200, body |-> content, etag |-> etag]

toNoContentWithEtag(etag) == [status |-> 204, body |-> <<>>, etag |-> etag]

toSuccess(data) == [status |-> 200, body |-> data, etag |-> <<>>]

toNoContent == [status |-> 204, body |-> <<>>, etag |-> <<>>]

toBadRequest == [status |-> 400, body |-> <<>>, etag |-> <<>>]

toConflict == [status |-> 409, body |-> <<>>, etag |-> <<>>]

toNotFound == [status |-> 404, body |-> <<>>, etag |-> <<>>]

toNotModified == [status |-> 304, body |-> <<>>, etag |-> <<>>]

toInternalServerError == [status |-> 500, body |-> <<>>, etag |-> <<>>]

\* the handler returns after toBadRequest, before any storage call
Rejected(st, why) ==
  [store |-> st, rejected |-> why, called |-> "none", args |-> NoArgs,
   err |-> "none", resp |-> toBadRequest]

\* the handler called its storage function, which left the bucket st and
\* returned err, and answers resp
Served(st, called, args, err, resp) ==
  [store |-> st, rejected |-> "none", called |-> called, args |-> args,
   err |-> err, resp |-> resp]

handleGetFiles(st, bound, pageSizeIn, continuationTokenIn, fault) ==
  IF ~bound THEN Rejected(st, "bind")
  ELSE IF ~isPageSizeValid(pageSizeIn) THEN Rejected(st, "pageSize")
  ELSE IF ~isContinuationTokenValid(continuationTokenIn)
       THEN Rejected(st, "continuationToken")
  ELSE IF ~PathUnescape(continuationTokenIn).ok
       THEN Rejected(st, "continuationToken")
  ELSE LET pageSize == IF pageSizeIn = 0 THEN PAGE_SIZE_DEFAULT ELSE pageSizeIn
           continuationToken == PathUnescape(continuationTokenIn).value
           result == listFiles(st, prefix, pageSize, continuationToken, fault)
           args == [NoArgs EXCEPT !.pageSize = pageSize,
                                  !.continuationToken = continuationToken]
       IN Served(st, "listFiles", args, result.err,
                 IF result.err = ErrInvalidArgument THEN toBadRequest
                 ELSE IF result.err # NoError THEN toInternalServerError
                 ELSE toSuccess(getFilesDataOut(result)))

handleGetFile(st, fileNameIn, etag, fault) ==
  IF fileNameIn = <<>> THEN Rejected(st, "bind")
  ELSE IF ~isFileNameValid(fileNameIn) THEN Rejected(st, "fileName")
  ELSE IF ~PathUnescape(fileNameIn).ok THEN Rejected(st, "fileName")
  ELSE IF ~isEtagValid(etag) THEN Rejected(st, "etag")
  ELSE LET fileName == PathUnescape(fileNameIn).value
           result == getFileContent(st, prefix, fileName, etag, fault)
           args == [NoArgs EXCEPT !.fileName = fileName, !.etag = etag]
       IN Served(result.store, "getFileContent", args, result.err,
                 IF result.err = ErrNotFound THEN toNotFound
                 ELSE IF result.err = ErrNotModified THEN toNotModified
                 ELSE IF result.err # NoError THEN toInternalServerError
                 ELSE toPlainTextWithEtag(result.content, result.etag))

\* handlePutFile that saves the body before it looks at its size
handlePutFile_SaveFirst(st, fileNameIn, content, fault) ==
  IF fileNameIn = <<>> THEN Rejected(st, "bind")
  ELSE IF ~isFileNameValid(fileNameIn) THEN Rejected(st, "fileName")
  ELSE IF ~PathUnescape(fileNameIn).ok THEN Rejected(st, "fileName")
  ELSE LET fileName == PathUnescape(fileNameIn).value
           result == saveFileContent(st, prefix, fileName, content, TRUE, fault)
           args == [NoArgs EXCEPT !.fileName = fileName]
       IN IF ~isContentValid(content)
          THEN [Rejected(result.store, "content") EXCEPT
                  !.called = "saveFileContent", !.args = args]
          ELSE Served(result.store, "saveFileContent", args, result.err,
                      IF result.err # NoError THEN toInternalServerError
                      ELSE toNoContentWithEtag(result.etag))

handlePutFile(st, fileNameIn, content, fault) ==
  IF fileNameIn = <<>> THEN Rejected(st, "bind")
  ELSE IF ~isFileNameValid(fileNameIn) THEN Rejected(st, "fileName")
  ELSE IF ~PathUnescape(fileNameIn).ok THEN Rejected(st, "fileName")
  ELSE IF ~isContentValid(content) THEN Rejected(st, "content")
  ELSE LET fileName == PathUnescape(fileNameIn).value
           result == saveFileContent(st, prefix, fileName, content, TRUE, fault)
           args == [NoArgs EXCEPT !.fileName = fileName]
       IN Served(result.store, "saveFileContent", args, result.err,
                 IF result.err # NoError THEN toInternalServerError
                 ELSE toNoContentWithEtag(result.etag))

\* handlePostFile without the test for ErrAlreadyExists
handlePostFile_NoConflict(st, fileNameIn, content, fault) ==
  IF fileNameIn = <<>> THEN Rejected(st, "bind")
  ELSE IF ~isFileNameValid(fileNameIn) THEN Rejected(st, "fileName")
  ELSE IF ~PathUnescape(fileNameIn).ok THEN Rejected(st, "fileName")
  ELSE IF ~isContentValid(content) THEN Rejected(st, "content")
  ELSE LET fileName == PathUnescape(fileNameIn).value
           result == saveFileContent(st, prefix, fileName, content, FALSE, fault)
           args == [NoArgs EXCEPT !.fileName = fileName]
       IN Served(result.store, "saveFileContent", args, result.err,
                 IF result.err # NoError THEN toInternalServerError
                 ELSE toNoContentWithEtag(result.etag))

handlePostFile(st, fileNameIn, content, fault) ==
  IF fileNameIn = <<>> THEN Rejected(st, "bind")
  ELSE IF ~isFileNameValid(fileNameIn) THEN Rejected(st, "fileName")
  ELSE IF ~PathUnescape(fileNameIn).ok THEN Rejected(st, "fileName")
  ELSE IF ~isContentValid(content) THEN Rejected(st, "content")
  ELSE LET fileName == PathUnescape(fileNameIn).value
           result == saveFileContent(st, prefix, fileName, content, FALSE, fault)
           args == [NoArgs EXCEPT !.fileName = fileName]
       IN Served(result.store, "saveFileContent", args, result.err,
                 IF result.err = ErrAlreadyExists THEN toConflict
                 ELSE IF result.err # NoError THEN toInternalServerError
                 ELSE toNoContentWithEtag(result.etag))

handleDeleteFile(st, fileNameIn, fault) ==
  IF fileNameIn = <<>> THEN Rejected(st, "bind")
  ELSE IF ~isFileNameValid(fileNameIn) THEN Rejected(st, "fileName")
  ELSE IF ~PathUnescape(fileNameIn).ok THEN Rejected(st, "fileName")
  ELSE LET fileName == PathUnescape(fileNameIn).value
           result == deleteFile(st, prefix, fileName, fault)
           args == [NoArgs EXCEPT !.fileName = fileName]
       IN Served(result.store, "deleteFile", args, result.err,
                 IF result.err # NoError THEN toInternalServerError
                 ELSE toNoContent)

\* fileNameIn and newFileNameIn are the fields of the JSON body; an empty
\* one fails the binding (binding:"required")
handleRenameFile(st, fileNameIn, newFileNameIn, fault1, fault2, fault3) ==
  IF fileNameIn = <<>> \/ newFileNameIn = <<>> THEN Rejected(st, "bind")
  ELSE IF ~isFileNameValid(fileNameIn) THEN Rejected(st, "fileName")
  ELSE IF ~PathUnescape(fileNameIn).ok THEN Rejected(st, "fileName")
  ELSE IF ~isFileNameValid(newFileNameIn) THEN Rejected(st, "newFileName")
  ELSE IF ~PathUnescape(newFileNameIn).ok THEN Rejected(st, "newFileName")
  ELSE LET fileName == PathUnescape(fileNameIn).value
           newFileName == PathUnescape(newFileNameIn).value
           result == renameFile(st, prefix, fileName, newFileName,
                                fault1, fault2, fault3)
           args == [NoArgs EXCEPT !.fileName = fileName,
                                  !.newFileName = newFileName]
       IN Served(result.store, "renameFile", args, result.err,
                 IF result.err = ErrNotFound THEN toNotFound
                 ELSE IF result.err = ErrAlreadyExists THEN toConflict
                 ELSE IF result.err # NoError THEN toInternalServerError
                 ELSE toNoContentWithEtag(result.etag))

\* the file names bound from the URI (gin has decoded the path once): plain
\* names, names that still hold an escape, a malformed escape, and names the
\* validation refuses (no stem, no supported suffix, 201 characters)
UriNames ==
  { <<"a", ".", "m", "d">>,
    <<"a", " ", "b", ".", "t", "x", "t">>,
    <<"a", "+", "b", ".", "t", "x", "t">>,
    <<"a", "%", "2", "0", "b", ".", "t", "x", "t">>,
    <<"a", "%", "2", "F", "b", ".", "m", "d">>,
    <<"a", "%", ".", "m", "d">>,
    <<".", "m", "d">>,
    <<"a", ".", "b">>,
    Xs(196) \o <<".", "t", "x", "t">>,
    Xs(197) \o <<".", "t", "x", "t">> }

\* the file names of a JSON body: also a name with "/" and a missing field
BodyNames == UriNames \cup { <<"a", "/", "b", ".", "m", "d">>, <<>> }

\* If-None-Match: none, the ETags of the notes, 100 and 101 characters
HandlerEtags == ETags \cup { Xs(100), Xs(101) }

\* request bodies: the notes' contents, 102400 and 102401 bytes
HandlerContents == Contents \cup { Xs(102400), Xs(102401) }

\* pageSize: absent (0), small, the largest allowed, too large, negative
HandlerPageSizes == PageSizes \cup { -1, 0, 1000, 1001 }

\* continuationToken: the client's cursors, a token escaped once more, a
\* malformed escape, 1000 and 1001 characters
HandlerTokens ==
  Cursors \cup { QueryEscape(ContinuationTokenOf(Key(<<"a", ".", "m", "d">>))),
                 <<"%">>, Xs(1000), Xs(1001) }

\* the handler has served the request: r is what it did, faults the outcomes
\* the environment chose for the requests of its storage call
Serve(handler, in, contentLen, r, faults) ==
  /\ store' = r.store
  /\ http' = [handler |-> handler, in |-> in, contentLen |-> contentLen,
              rejected |-> r.rejected, called |-> r.called, args |-> r.args,
              err |-> r.err, resp |-> r.resp,
              faults |-> IF r.called = "none" THEN <<>> ELSE faults]
  /\ UNCHANGED <<store0, pc, call, res, before, touched, list, scn>>

HandleGetFiles ==
  /\ http.handler = "none"
  /\ \E bound \in BOOLEAN, pageSize \in HandlerPageSizes,
        continuationToken \in HandlerTokens, fault \in {"none", "config", "store"} :
       Serve("handleGetFiles",
             IF bound THEN [NoArgs EXCEPT !.pageSize = pageSize,
                                          !.continuationToken = continuationToken]
             ELSE NoArgs,
             0, handleGetFiles(store, bound, pageSize, continuationToken, fault),
             <<fault>>)

HandleGetFile ==
  /\ http.handler = "none"
  /\ \E fileName \in UriNames, etag \in HandlerEtags,
        fault \in {"none", "config", "store", "body"} :
       Serve("handleGetFile", [NoArgs EXCEPT !.fileName = fileName, !.etag = etag],
             0, handleGetFile(store, fileName, etag, fault), <<fault>>)

HandlePutFile ==
  /\ http.handler = "none"
  /\ \E fileName \in UriNames, content \in HandlerContents,
        fault \in {"none", "config", "store"} :
       Serve("handlePutFile", [NoArgs EXCEPT !.fileName = fileName],
             Len(content), handlePutFile(store, fileName, content, fault), <<fault>>)

HandlePostFile ==
  /\ http.handler = "none"
  /\ \E fileName \in UriNames, content \in HandlerContents,
        fault \in {"none", "config", "store"} :
       Serve("handlePostFile", [NoArgs EXCEPT !.fileName = fileName],
             Len(content), handlePostFile(store, fileName, content, fault), <<fault>>)

HandleDeleteFile ==
  /\ http.handler = "none"
  /\ \E fileName \in UriNames, fault \in {"none", "config", "store", "nosuchkey"} :
       Serve("handleDeleteFile", [NoArgs EXCEPT !.fileName = fileName],
             0, handleDeleteFile(store, fileName, fault), <<fault>>)

HandleRenameFile ==
  /\ http.handler = "none"
  /\ \E fileName \in BodyNames, newFileName \in BodyNames,
        fault1 \in {"none", "config", "store"}, fault2 \in {"none", "store"},
        fault3 \in {"none", "store", "nosuchkey"} :
       Serve("handleRenameFile",
             [NoArgs EXCEPT !.fileName = fileName, !.newFileName = newFileName],
             0, handleRenameFile(store, fileName, newFileName, fault1, fault2, fault3),
             <<fault1, fault2, fault3>>)

\* one request, served by one of the six handlers
HandlerNext ==
  \/ HandleGetFiles
  \/ HandleGetFile
  \/ HandlePutFile
  \/ HandlePostFile
  \/ HandleDeleteFile
  \/ HandleRenameFile

HandlerSpec == Init /\ [][HandlerNext]_vars

(***************************************************************************)
(* Listing a bucket whose objects were last modified at different times    *)
(***************************************************************************)
Times == {1, 2}

TimedObjects ==
  { [content |-> <<>>, etag |-> S3ETag(<<>>), lastModified |-> t] : t \in Times }

TimedBuckets == UNION { [D -> TimedObjects] : D \in SUBSET (Keys \cup OtherKeys) }

TimedInit ==
  /\ store \in TimedBuckets
  /\ store0 = store
  /\ pc = [p \in Procs |-> "idle"]
  /\ call = [p \in Procs |-> NoCall]
  /\ res = [p \in Procs |-> NoRes]
  /\ before = [p \in Procs |-> NoBefore]
  /\ touched = [p \in Procs |-> {}]
  /\ list = NoList
  /\ scn = NoScn
  /\ http = NoHttp

ProjectionSpec == TimedInit /\ [][ListNext]_vars

(***************************************************************************)
(* A client paging through GET /files: its first request carries no        *)
(* continuationToken, each following request carries the                   *)
(* nextContinuationToken of the last response as the value of the query    *)
(* parameter (gin binds the value the client passed).  list holds what     *)
(* listFiles was called with and returned, http the exchange.              *)
(***************************************************************************)
\* handleGetFiles has served the client's request number calls
HttpPage(pageSizeIn, continuationTokenIn, fault, calls) ==
  \E r \in {handleGetFiles(store, TRUE, pageSizeIn, continuationTokenIn, fault)} :
  \E result \in {listFiles(store, prefix, r.args.pageSize, r.args.continuationToken,
                            fault)} :
     /\ http' = [handler |-> "handleGetFiles",
                 in |-> [NoArgs EXCEPT !.pageSize = pageSizeIn,
                                       !.continuationToken = continuationTokenIn],
                 contentLen |-> 0, rejected |-> r.rejected, called |-> r.called,
                 args |-> r.args, err |-> r.err, resp |-> r.resp,
                 faults |-> IF r.called = "none" THEN <<>> ELSE <<fault>>]
     /\ list' = IF r.called = "none"
                THEN [NoList EXCEPT !.calls = calls, !.err = "rejected"]
                ELSE [pageSize |-> r.args.pageSize, cursor |-> r.args.continuationToken,
                      fromStart |-> calls = 1, calls |-> calls,
                      err |-> result.err, files |-> result.files,
                      hasMore |-> result.hasMore, next |-> result.next,
                      seen |-> list.seen \o result.files, fault |-> fault]
     /\ UNCHANGED <<store, store0, pc, call, res, before, touched, scn>>

HttpList ==
  /\ http.handler = "none"
  /\ \E pageSize \in PageSizes \cup {0}, fault \in {"none", "config", "store"} :
       HttpPage(pageSize, <<>>, fault, 1)

HttpListMore ==
  /\ http.handler = "handleGetFiles"
  /\ http.resp.status = 200 /\ http.resp.body.hasMore
  /\ \E fault \in {"none", "config", "store"} :
       HttpPage(http.in.pageSize, http.resp.body.nextContinuationToken, fault,
                list.calls + 1)

PagingNext == HttpList \/ HttpListMore

PagingSpec == AnyInit /\ [][PagingNext]_vars

TypeOK ==
  /\ store \in Buckets
  /\ pc \in [Procs -> {"idle", "reserved", "copied", "done"}]
  /\ \A p \in Procs : touched[p] \subseteq {"src", "tgt"}

(***************************************************************************)
(* Shorthands for the properties                                           *)
(***************************************************************************)
\* the storage function op called by handler p has returned
Done(p, op) == pc[p] = "done" /\ call[p].op = op

\* every request of p's call reached S3 and S3 answered it by its rules
Answered(p) == res[p].fault \notin {"config", "store", "body"}

\* no other handler has issued a request yet
Alone(p) == \A q \in Procs \ {p} : pc[q] = "idle"

CreateOnly(p, fileName) ==
  Done(p, "save") /\ call[p].fileName = fileName /\ ~call[p].overwrite

\* what a client reading fileName now, without a fingerprint, is answered
ReadNow(fileName) == getFileContent(store, prefix, fileName, <<>>, "none")

(***************************************************************************)
(* C1  Create-only exclusivity.  When two overlapping saveFileContent      *)
(* calls with overwrite = false name the same key, the key was absent when *)
(* the first of them ran and no request failed, exactly one call returns   *)
(* an ETag and the other returns ErrAlreadyExists, and the object at the   *)
(* key holds the content and ETag of the successful call.                  *)
(***************************************************************************)
C1_CreateOnlyExclusive ==
  \A p, q \in Procs : \A f \in FileNames :
    ( /\ p # q
      /\ CreateOnly(p, f) /\ CreateOnly(q, f)
      /\ Answered(p) /\ Answered(q)
      /\ before[p].src = NoObject )
    => /\ res[p].err = NoError
       /\ res[q].err = ErrAlreadyExists
       /\ res[q].etag = <<>>
       /\ Exists(store, Key(f))
       /\ store[Key(f)].content = call[p].content
       /\ store[Key(f)].etag = res[p].etag

\* both create-only writes have returned, with different contents
C1_Witness ==
  \E p, q \in Procs : \E f \in FileNames :
    /\ p # q
    /\ CreateOnly(p, f) /\ CreateOnly(q, f)
    /\ before[p].src = NoObject
    /\ res[p].err = NoError /\ res[q].err = ErrAlreadyExists
    /\ call[p].content # call[q].content

(***************************************************************************)
(* C2  Rename success postcondition.  When renameFile(S, T) has returned   *)
(* success and no other handler has written or deleted S or T since the    *)
(* rename started, a Read of T returns the content S held before the       *)
(* rename, with the ETag renameFile returned (which is the ETag S had),    *)
(* and a Read of S returns ErrNotFound.                                    *)
(***************************************************************************)
C2_RenameSuccess ==
  \A p \in Procs :
    (Done(p, "rename") /\ res[p].err = NoError /\ touched[p] = {})
    => LET rT == ReadNow(call[p].newFileName)
           rS == ReadNow(call[p].fileName)
       IN /\ before[p].src # NoObject
          /\ rT.err = NoError
          /\ rT.content = before[p].src.content
          /\ rT.etag = res[p].etag
          /\ rT.etag = before[p].src.etag
          /\ rS.err = ErrNotFound

\* a rename of a note with content, whose name holds a space or a plus, succeeded
C2_Witness ==
  \E p \in Procs :
    /\ Done(p, "rename") /\ res[p].err = NoError /\ touched[p] = {}
    /\ before[p].src.content # <<>>
    /\ \E i \in 1..Len(call[p].fileName) : call[p].fileName[i] \in {" ", "+"}

(***************************************************************************)
(* C3  Rename never loses the source on failure.  When renameFile(S, T)    *)
(* has returned an error, S existed when the rename started and no other   *)
(* handler has written or deleted S since, S still holds the object it     *)
(* held, content and ETag.                                                 *)
(***************************************************************************)
C3_SourceKeptOnFailure ==
  \A p \in Procs :
    ( /\ Done(p, "rename") /\ res[p].err # NoError
      /\ before[p].src # NoObject /\ "src" \notin touched[p] )
    => ObjectAt(store, Key(call[p].fileName)) = before[p].src

\* the rename failed at its last step, the delete of the source
C3_Witness ==
  \E p \in Procs :
    /\ Done(p, "rename") /\ res[p].err = ErrServiceUnavailable
    /\ res[p].reqs = <<"PutObject", "CopyObject", "DeleteObject">>
    /\ before[p].src # NoObject /\ "src" \notin touched[p]

(***************************************************************************)
(* C4  Rename onto an existing target.  When an object exists at T when    *)
(* renameFile(S, T) starts (and the request reaches S3), renameFile        *)
(* returns ErrAlreadyExists whether or not S exists, its only request is   *)
(* the reserving PutObject (no copy, no delete), and the objects at S and  *)
(* T (or their absence) are as they were unless another handler changed    *)
(* them.                                                                   *)
(***************************************************************************)
C4_RenameOntoExisting ==
  \A p \in Procs :
    (call[p].op = "rename" /\ Answered(p) /\ before[p].tgt # NoObject)
    => /\ pc[p] = "done"
       /\ res[p].err = ErrAlreadyExists
       /\ res[p].reqs = <<"PutObject">>
       /\ "tgt" \notin touched[p]
            => ObjectAt(store, Key(call[p].newFileName)) = before[p].tgt
       /\ "src" \notin touched[p]
            => ObjectAt(store, Key(call[p].fileName)) = before[p].src

\* the target existed and the source did not
C4_Witness ==
  \E p \in Procs :
    /\ Done(p, "rename") /\ res[p].err = ErrAlreadyExists
    /\ before[p].tgt # NoObject /\ before[p].src = NoObject
    /\ Alone(p)

(***************************************************************************)
(* C5  Rename never destroys a target written by someone else.             *)
(* As claimed: whenever a Write to T by another handler has returned       *)
(* success, create-only or overwrite, no request of a renameFile(S, T)     *)
(* has replaced the object that Write stored.                              *)
(***************************************************************************)
C5_Original ==
  \A p, q \in Procs :
    ( /\ p # q
      /\ call[p].op = "rename"
      /\ Done(q, "save") /\ res[q].err = NoError
      /\ call[q].fileName = call[p].newFileName )
    => "src" \notin touched[q]

(***************************************************************************)
(* C5 as amended: whenever a create-only Write to T by another handler     *)
(* has returned success, no request of a renameFile(S, T) has replaced     *)
(* the object that Write stored, and a rename that started after the       *)
(* Write was answered ErrAlreadyExists by its reservation.  (An overwrite  *)
(* Write that lands between the reservation and the copy is replaced by    *)
(* the copy.)                                                              *)
(***************************************************************************)
C5_CreateOnlyWriterKept ==
  \A p, q \in Procs :
    ( /\ p # q
      /\ call[p].op = "rename"
      /\ Done(q, "save") /\ res[q].err = NoError /\ ~call[q].overwrite
      /\ call[q].fileName = call[p].newFileName )
    => /\ "src" \notin touched[q]
       /\ Answered(p) => (pc[p] = "done" /\ res[p].err = ErrAlreadyExists)

\* a create-only Write took the target and the rename was refused
C5_Witness ==
  \E p, q \in Procs :
    /\ p # q
    /\ Done(p, "rename") /\ res[p].err = ErrAlreadyExists
    /\ Done(q, "save") /\ res[q].err = NoError /\ ~call[q].overwrite
    /\ call[q].fileName = call[p].newFileName
    /\ before[q].src = NoObject
    /\ before[p].src # NoObject

(***************************************************************************)
(* C6  Rename of a missing source.  As claimed: when neither S nor T       *)
(* exists when renameFile(S, T) starts (T = S included), every request     *)
(* reaches S3 and no other handler writes S or T, renameFile returns       *)
(* ErrNotFound.                                                            *)
(***************************************************************************)
C6_MissingSourceNotFound ==
  \A p \in Procs :
    ( /\ Done(p, "rename") /\ Answered(p)
      /\ before[p].src = NoObject /\ before[p].tgt = NoObject
      /\ touched[p] = {} )
    => res[p].err = ErrNotFound

(***************************************************************************)
(* C7  Stray reservation after a NotFound rename.  When renameFile(S, T)   *)
(* has returned ErrNotFound and no other handler has run, the bucket is    *)
(* the bucket it started from plus an object with empty content at T; a    *)
(* create-only Write to T is now refused with ErrAlreadyExists and an      *)
(* overwrite Write to T succeeds and stores its content.                   *)
(***************************************************************************)
C7_StrayReservation ==
  \A p \in Procs :
    (Done(p, "rename") /\ res[p].err = ErrNotFound /\ Alone(p))
    => LET T == call[p].newFileName
       IN /\ store = StorePut(store0, Key(T), <<>>)
          /\ ~Exists(store0, Key(T))
          /\ \A c \in Contents :
               /\ saveFileContent(store, prefix, T, c, FALSE, "none").err
                    = ErrAlreadyExists
               /\ saveFileContent(store, prefix, T, c, TRUE, "none").err = NoError
               /\ saveFileContent(store, prefix, T, c, TRUE, "none").store[Key(T)].content
                    = c

\* a rename of a missing source has failed, in a bucket that holds another note
C7_Witness ==
  \E p \in Procs :
    /\ Done(p, "rename") /\ res[p].err = ErrNotFound /\ Alone(p)
    /\ call[p].fileName # call[p].newFileName
    /\ \E k \in DOMAIN store0 : store0[k].content # <<>>

(***************************************************************************)
(* C8  Rename delete-step failure.  When the reservation and the copy of   *)
(* renameFile(S, T) succeeded, S3 failed the delete of S and no other      *)
(* handler has written or deleted S or T, renameFile returns               *)
(* ErrServiceUnavailable and no ETag, and both S and T exist, S as it was  *)
(* and T with S's content.                                                 *)
(***************************************************************************)
C8_DeleteStepFailure ==
  \A p \in Procs :
    ( /\ Done(p, "rename")
      /\ res[p].reqs = <<"PutObject", "CopyObject", "DeleteObject">>
      /\ res[p].fault = "store"
      /\ touched[p] = {} )
    => LET S == Key(call[p].fileName)
           T == Key(call[p].newFileName)
       IN /\ res[p].err = ErrServiceUnavailable
          /\ res[p].etag = <<>>
          /\ Exists(store, S) /\ Exists(store, T)
          /\ store[S] = before[p].src
          /\ store[T].content = before[p].src.content

\* the delete failed after the copy of a note with content
C8_Witness ==
  \E p \in Procs :
    /\ Done(p, "rename")
    /\ res[p].reqs = <<"PutObject", "CopyObject", "DeleteObject">>
    /\ res[p].fault = "store"
    /\ touched[p] = {}
    /\ before[p].src.content # <<>>

(***************************************************************************)
(* C9  One live object per logical note after rename.  As claimed: when    *)
(* the only calls that ran are renames of the same source S (one, or two   *)
(* running concurrently) and all of them have returned success, exactly    *)
(* one of S and the renames' targets exists.                               *)
(***************************************************************************)
RenamesOf(S) == { p \in Procs : call[p].op = "rename" /\ call[p].fileName = S }

C9_OneLiveObject ==
  \A S \in FileNames :
    ( /\ RenamesOf(S) # {}
      /\ \A p \in RenamesOf(S) : pc[p] = "done" /\ res[p].err = NoError
      /\ \A q \in Procs \ RenamesOf(S) : pc[q] = "idle" )
    => Cardinality({ k \in {Key(S)} \cup { Key(call[p].newFileName) : p \in RenamesOf(S) } :
                       Exists(store, k) }) = 1

(***************************************************************************)
(* C10  Conditional read short-circuit.  When getFileContent is called     *)
(* with a non-empty etag equal to the ETag of the object at the key, and   *)
(* the request reaches S3, it returns ErrNotModified and neither content   *)
(* nor ETag.                                                               *)
(***************************************************************************)
C10_ConditionalRead ==
  \A p \in Procs :
    ( /\ Done(p, "get") /\ Answered(p)
      /\ before[p].src # NoObject
      /\ call[p].etag # <<>> /\ call[p].etag = before[p].src.etag )
    => /\ res[p].err = ErrNotModified
       /\ res[p].content = <<>>
       /\ res[p].etag = <<>>

\* a conditional read of a note with content was answered
C10_Witness ==
  \E p \in Procs :
    /\ Done(p, "get") /\ Answered(p)
    /\ before[p].src.content # <<>>
    /\ call[p].etag = before[p].src.etag
    /\ res[p].err = ErrNotModified

(***************************************************************************)
(* C11  Unconditional read.  When getFileContent is called with an empty   *)
(* etag on a key that holds an object, and the request reaches S3 and the  *)
(* body is read, it returns the whole content and the ETag the object had  *)
(* when the request ran; with an empty etag it never returns               *)
(* ErrNotModified, whatever the store's outcome.                           *)
(***************************************************************************)
C11_UnconditionalRead ==
  \A p \in Procs :
    (Done(p, "get") /\ call[p].etag = <<>>)
    => /\ res[p].err # ErrNotModified
       /\ (Answered(p) /\ before[p].src # NoObject)
            => /\ res[p].err = NoError
               /\ res[p].content = before[p].src.content
               /\ res[p].etag = before[p].src.etag

\* an unconditional read of a note with content returned it
C11_Witness ==
  \E p \in Procs :
    /\ Done(p, "get") /\ call[p].etag = <<>> /\ Answered(p)
    /\ before[p].src.content # <<>>
    /\ res[p].content = before[p].src.content

(***************************************************************************)
(* C12  Read of a missing note.  When getFileContent is called on a key    *)
(* that holds no object, and the request reaches S3, it returns            *)
(* ErrNotFound, whether the caller's etag is empty or not.                 *)
(***************************************************************************)
C12_ReadMissing ==
  \A p \in Procs :
    (Done(p, "get") /\ Answered(p) /\ before[p].src = NoObject)
    => /\ res[p].err = ErrNotFound
       /\ res[p].content = <<>>
       /\ res[p].etag = <<>>

\* a conditional read of a missing note was answered
C12_Witness ==
  \E p \in Procs :
    /\ Done(p, "get") /\ Answered(p) /\ before[p].src = NoObject
    /\ call[p].etag # <<>>
    /\ res[p].err = ErrNotFound

(***************************************************************************)
(* C13  Create-only write.  When saveFileContent with overwrite = false    *)
(* reaches S3: on a key that holds an object it returns ErrAlreadyExists   *)
(* and the object keeps its content and ETag; on an absent key it returns  *)
(* success, the object at the key holds exactly the given content, and     *)
(* the ETag returned is the ETag of that object.  (The state of the key    *)
(* is compared as long as no other handler has written or deleted it.)     *)
(***************************************************************************)
C13_CreateOnlyWrite ==
  \A p \in Procs :
    (Done(p, "save") /\ ~call[p].overwrite /\ Answered(p))
    => LET key == Key(call[p].fileName)
       IN IF before[p].src # NoObject
          THEN /\ res[p].err = ErrAlreadyExists
               /\ res[p].etag = <<>>
               /\ "src" \notin touched[p] => ObjectAt(store, key) = before[p].src
          ELSE /\ res[p].err = NoError
               /\ "src" \notin touched[p]
                    => /\ Exists(store, key)
                       /\ store[key].content = call[p].content
                       /\ store[key].etag = res[p].etag

\* a create-only write with another content was refused on an existing note
C13_Witness ==
  \E p \in Procs :
    /\ Done(p, "save") /\ ~call[p].overwrite /\ Answered(p)
    /\ before[p].src # NoObject
    /\ before[p].src.content # call[p].content
    /\ res[p].err = ErrAlreadyExists
    /\ Alone(p)

(***************************************************************************)
(* C14  Overwrite write round trip.  When saveFileContent with             *)
(* overwrite = true reaches S3 it returns success whether or not the key   *)
(* held an object, and a getFileContent with an empty etag that follows    *)
(* it (before any other write or delete of the key) returns exactly the    *)
(* content written, with the ETag saveFileContent returned.                *)
(***************************************************************************)
C14_OverwriteRoundTrip ==
  \A p \in Procs :
    (Done(p, "save") /\ call[p].overwrite /\ Answered(p))
    => /\ res[p].err = NoError
       /\ "src" \notin touched[p]
            => LET r == ReadNow(call[p].fileName)
               IN /\ r.err = NoError
                  /\ r.content = call[p].content
                  /\ r.etag = res[p].etag

\* an overwrite replaced a note that held another content
C14_Witness ==
  \E p \in Procs :
    /\ Done(p, "save") /\ call[p].overwrite /\ Answered(p)
    /\ before[p].src # NoObject
    /\ before[p].src.content # call[p].content
    /\ "src" \notin touched[p]

(***************************************************************************)
(* C15  Delete idempotence.  When deleteFile reaches the store it returns  *)
(* success, whether the key held an object or not (a second deleteFile of  *)
(* the key included, and also when the store answers NoSuchKey), and a     *)
(* getFileContent of the key that follows it (before any write of the      *)
(* key) returns ErrNotFound.                                               *)
(***************************************************************************)
C15_DeleteIdempotent ==
  \A p \in Procs :
    (Done(p, "delete") /\ Answered(p))
    => /\ res[p].err = NoError
       /\ "src" \notin touched[p]
            => ReadNow(call[p].fileName).err = ErrNotFound

\* two deletes of one existing note have both returned, the second on the absent key
C15_Witness ==
  \E p, q \in Procs :
    /\ p # q
    /\ Done(p, "delete") /\ Done(q, "delete")
    /\ call[p].fileName = call[q].fileName
    /\ before[p].src # NoObject /\ before[q].src = NoObject
    /\ res[p].err = NoError /\ res[q].err = NoError
    /\ res[q].fault = "nosuchkey"

(***************************************************************************)
(* Shorthands for the listing properties                                   *)
(***************************************************************************)
\* a listFiles call has returned a page
Page == list.calls > 0 /\ list.err = NoError

\* the client's loop is over: the last call failed or said there is no more
ListOver == list.calls > 0 /\ (list.err # NoError \/ ~list.hasMore)

\* the keys of the bucket under the prefix, and the supported files among them
KeysUnder(st, pre) == { k \in DOMAIN st : HasPrefix(k, pre) }

FileOf(st, pre, k) ==
  [fileName |-> CutPrefix(k, pre), lastModified |-> st[k].lastModified,
   etag |-> st[k].etag]

SupportedFiles(st, pre) ==
  { FileOf(st, pre, k) : k \in { j \in KeysUnder(st, pre) : isSupportedFileType(j) } }

\* what S3 answered to the last listFiles call (the bucket has not changed)
LastOutput == S3ListObjectsV2(store, prefix, list.pageSize, list.cursor, "none")

(***************************************************************************)
(* C16  Listing filter closure.  For every bucket content and every page,  *)
(* each file in the response of handleGetFiles has a name that ends in     *)
(* .txt or .md, holds no "/" and does not contain the user's prefix.       *)
(* (The names with a "/" that listFiles returns for keys in a subfolder    *)
(* are dropped by handleGetFiles when it packs the response.)              *)
(***************************************************************************)
C16_FilterClosure ==
  Page =>
    LET out == getFilesDataOut(list)
    IN \A i \in 1..Len(out.files) :
         LET title == out.files[i].fileName
         IN /\ HasSuffix(title, <<".", "t", "x", "t">>) \/ HasSuffix(title, <<".", "m", "d">>)
            /\ ~Contains(title, <<"/">>)
            /\ ~Contains(title, prefix)

\* a page held a note and a key in a subfolder of the prefix
C16_Witness ==
  /\ Page
  /\ \E i \in 1..Len(list.files) : Contains(list.files[i].fileName, prefix)
  /\ Len(getFilesDataOut(list).files) > 0
  /\ Len(getFilesDataOut(list).files) < Len(list.files)

(***************************************************************************)
(* C17  Pagination completeness.  In a bucket nobody writes, for every     *)
(* page size, a client that calls listFiles with an empty continuation     *)
(* token and then with the token of the page before never sees a file      *)
(* twice, sees only files of supported keys under the prefix, makes at     *)
(* most as many calls as there are keys under the prefix (one when there   *)
(* are none), and when a page says there is no more has seen exactly the   *)
(* supported files under the prefix; and the loop ends.                    *)
(***************************************************************************)
C17_Pages ==
  (list.calls > 0 /\ list.fromStart)
  => LET n == Cardinality(KeysUnder(store, prefix))
     IN /\ \A i, j \in 1..Len(list.seen) : list.seen[i] = list.seen[j] => i = j
        /\ \A i \in 1..Len(list.seen) : list.seen[i] \in SupportedFiles(store, prefix)
        /\ list.calls <= (IF n = 0 THEN 1 ELSE n)
        /\ (list.err = NoError /\ ~list.hasMore)
             => { list.seen[i] : i \in 1..Len(list.seen) } = SupportedFiles(store, prefix)

C17_PaginationComplete == []C17_Pages /\ <>ListOver

\* a listing of several pages, with keys that are no notes among the notes, is complete
C17_Witness ==
  /\ list.fromStart /\ list.calls >= 3
  /\ list.err = NoError /\ ~list.hasMore
  /\ Len(list.seen) >= 2
  /\ Len(list.seen) < Cardinality(KeysUnder(store, prefix))

(***************************************************************************)
(* C18  Short pages are valid.  The hasMore of a page is the IsTruncated   *)
(* of S3's answer, whatever the number of files that pass the filter: a    *)
(* full page of unsupported keys that S3 truncated gives no file,          *)
(* hasMore = true and a non-empty next token; and a page never holds       *)
(* more files than pageSize.                                               *)
(***************************************************************************)
C18_ShortPages ==
  Page =>
    /\ list.hasMore = LastOutput.isTruncated
    /\ Len(list.files) <= list.pageSize
    /\ ( /\ LastOutput.isTruncated
         /\ \A i \in 1..Len(LastOutput.contents) :
              ~isSupportedFileType(LastOutput.contents[i].key) )
       => (list.files = <<>> /\ list.hasMore /\ list.next # <<>>)

\* a full page of unsupported keys, with a note left on a later page
C18_Witness ==
  /\ Page
  /\ Len(LastOutput.contents) = list.pageSize
  /\ \A i \in 1..Len(LastOutput.contents) :
       ~isSupportedFileType(LastOutput.contents[i].key)
  /\ LastOutput.isTruncated
  /\ list.files = <<>> /\ list.hasMore

(***************************************************************************)
(* Shorthands for the namespace properties                                 *)
(***************************************************************************)
\* the objects of a bucket under the prefix, and the others
OwnPart(st) == [k \in KeysUnder(st, prefix) |-> st[k]]

ForeignPart(st) == [k \in (DOMAIN st) \ KeysUnder(st, prefix) |-> st[k]]

\* a call on bucket st answered r and the same call on OwnPart(st) answered o:
\* the answers are the same, the objects under the prefix end up the same,
\* and the other objects of st are as they were
Isolated(st, r, o) ==
  /\ r.err = o.err /\ r.etag = o.etag /\ r.content = o.content
  /\ OwnPart(r.store) = o.store
  /\ ForeignPart(r.store) = ForeignPart(st)

(***************************************************************************)
(* C19  Namespace isolation.  For a client whose requests all carry the    *)
(* prefix of its user, in a bucket that also holds objects outside the     *)
(* prefix: the objects outside the prefix are never changed; a successful  *)
(* getFileContent returns the object at prefix + fileName, a successful    *)
(* renameFile the ETag of the object at prefix + fileName, and every       *)
(* file of a listFiles page is an object under the prefix; and every       *)
(* storage function answers, and leaves the objects under the prefix, as   *)
(* it would in a bucket that holds the objects under the prefix only.      *)
(***************************************************************************)
C19_NamespaceIsolation ==
  /\ ForeignPart(store) = ForeignPart(store0)
  /\ \A p \in Procs :
       /\ (Done(p, "get") /\ res[p].err = NoError)
            => /\ res[p].content = before[p].src.content
               /\ res[p].etag = before[p].src.etag
       /\ (Done(p, "rename") /\ res[p].err = NoError)
            => res[p].etag = before[p].src.etag
       /\ (Done(p, "list") /\ res[p].err = NoError)
            => \A i \in 1..Len(list.files) :
                 /\ Exists(store, prefix \o list.files[i].fileName)
                 /\ store[prefix \o list.files[i].fileName].etag = list.files[i].etag
  /\ (\A p \in Procs : pc[p] = "idle")
       => LET own == OwnPart(store)
          IN /\ \A f \in FileNames, e \in ETags :
                  Isolated(store, getFileContent(store, prefix, f, e, "none"),
                           getFileContent(own, prefix, f, e, "none"))
             /\ \A f \in FileNames, c \in Contents, o \in BOOLEAN :
                  Isolated(store, saveFileContent(store, prefix, f, c, o, "none"),
                           saveFileContent(own, prefix, f, c, o, "none"))
             /\ \A f \in FileNames :
                  Isolated(store, deleteFile(store, prefix, f, "none"),
                           deleteFile(own, prefix, f, "none"))
             /\ \A f \in FileNames, g \in FileNames :
                  /\ Isolated(store, renameReserve(store, prefix, g, "none"),
                              renameReserve(own, prefix, g, "none"))
                  /\ Isolated(store, renameCopy(store, prefix, f, g, "none"),
                              renameCopy(own, prefix, f, g, "none"))
                  /\ Isolated(store, renameDelete(store, prefix, f, <<>>, "none"),
                              renameDelete(own, prefix, f, <<>>, "none"))
             /\ \A n \in PageSizes, t \in Cursors :
                  listFiles(store, prefix, n, t, "none")
                    = listFiles(own, prefix, n, t, "none")

\* a note was renamed while objects of the same name lay outside the prefix
C19_Witness ==
  /\ Done("h1", "rename") /\ res["h1"].err = NoError
  /\ Exists(store, call["h1"].fileName)
  /\ Exists(store, <<"v", "/">> \o call["h1"].fileName)
  /\ store[call["h1"].fileName].content # before["h1"].src.content

(***************************************************************************)
(* C20  Closed error taxonomy.  Under every outcome of the store, a        *)
(* storage function that fails returns: listFiles ErrInvalidArgument or    *)
(* ErrServiceUnavailable; getFileContent ErrNotFound, ErrNotModified or    *)
(* ErrServiceUnavailable; saveFileContent ErrAlreadyExists or              *)
(* ErrServiceUnavailable; renameFile ErrAlreadyExists, ErrNotFound or      *)
(* ErrServiceUnavailable; deleteFile ErrServiceUnavailable; and a request  *)
(* that failed for a reason the code does not recognise (the client setup, *)
(* an unrecognised error of S3, the read of the body) gives                *)
(* ErrServiceUnavailable.                                                  *)
(***************************************************************************)
ErrorsOf(op) ==
  CASE op = "list"   -> {ErrInvalidArgument, ErrServiceUnavailable}
    [] op = "get"    -> {ErrNotFound, ErrNotModified, ErrServiceUnavailable}
    [] op = "save"   -> {ErrAlreadyExists, ErrServiceUnavailable}
    [] op = "rename" -> {ErrAlreadyExists, ErrNotFound, ErrServiceUnavailable}
    [] op = "delete" -> {ErrServiceUnavailable}
    [] OTHER         -> {}

C20_ClosedTaxonomy ==
  \A p \in Procs :
    pc[p] = "done"
    => /\ res[p].err \in {NoError} \cup ErrorsOf(call[p].op)
       /\ res[p].fault \in {"config", "store"}
            => res[p].err = ErrServiceUnavailable
       \* GetObject answered with the object and reading its body failed
       /\ ( /\ res[p].fault = "body"
            /\ before[p].src # NoObject
            /\ call[p].etag # before[p].src.etag )
            => res[p].err = ErrServiceUnavailable

\* S3 refused a copy with an error code renameFile does not test for
C20_Witness ==
  /\ Done("h1", "rename") /\ res["h1"].fault = "none"
  /\ res["h1"].reqs = <<"PutObject", "CopyObject">>
  /\ res["h1"].err = ErrServiceUnavailable

(***************************************************************************)
(* C23  Concurrent delete of the source during a rename.  As claimed:      *)
(* when the reservation of renameFile(S, T) succeeded and a deleteFile(S)  *)
(* of another handler removed S before renameFile returned, renameFile     *)
(* does not return success: it returns ErrNotFound or                      *)
(* ErrServiceUnavailable.                                                  *)
(***************************************************************************)
C23_DeleteDuringRename ==
  \A p, q \in Procs :
    ( /\ p # q
      /\ Done(p, "rename") /\ Len(res[p].reqs) >= 2
      /\ Done(q, "delete") /\ res[q].err = NoError
      /\ call[q].fileName = call[p].fileName
      /\ before[q].src # NoObject
      /\ "src" \in touched[p] )
    => res[p].err \in {ErrNotFound, ErrServiceUnavailable}

(***************************************************************************)
(* C24  Rename step order and single attempt.  The S3 requests of a        *)
(* renameFile call are, in this order and each at most once, the           *)
(* create-only PutObject of T, the CopyObject of S to T and the            *)
(* DeleteObject of S: the copy is issued only when the put succeeded (T    *)
(* was absent), the delete only when the copy succeeded, a call that       *)
(* returns success has issued all three, and a call that failed has        *)
(* issued no request after the one that failed.                            *)
(***************************************************************************)
RenameRequests == <<"PutObject", "CopyObject", "DeleteObject">>

C24_RenameStepOrder ==
  \A p \in Procs :
    call[p].op = "rename"
    => LET n == Len(res[p].reqs)
       IN /\ n <= 3
          /\ res[p].reqs = SubSeq(RenameRequests, 1, n)
          /\ n >= 2 => before[p].tgt = NoObject
          /\ pc[p] = "reserved" => n = 1
          /\ pc[p] = "copied" => n = 2
          /\ (pc[p] = "done" /\ res[p].err = NoError) => n = 3
          /\ (pc[p] = "done" /\ res[p].err = ErrAlreadyExists) => n = 1
          /\ (pc[p] = "done" /\ res[p].err = ErrNotFound) => n = 2
          /\ (pc[p] = "done" /\ res[p].fault = "config") => n = 0

\* a rename failed at its copy and issued no delete
C24_Witness ==
  \E p \in Procs :
    /\ Done(p, "rename") /\ res[p].fault = "store"
    /\ res[p].reqs = <<"PutObject", "CopyObject">>
    /\ before[p].src # NoObject

(***************************************************************************)
(* C25  Rename intermediate states.  In every state of a renameFile(S, T)  *)
(* of an existing S, T different from S, while no other handler writes or  *)
(* deletes S or T (the call may stop after any request, or fail at any):   *)
(* S holds its original object or T holds the original content, and the    *)
(* bucket is in one of four states: untouched; S intact and T empty        *)
(* (reserved); S intact and T with S's content (copied); S absent and T    *)
(* with S's content (renamed).                                             *)
(***************************************************************************)
C25_RenameStates ==
  \A p \in Procs :
    ( /\ call[p].op = "rename"
      /\ before[p].src # NoObject
      /\ call[p].fileName # call[p].newFileName
      /\ touched[p] = {} )
    => LET S == ObjectAt(store, Key(call[p].fileName))
           T == ObjectAt(store, Key(call[p].newFileName))
           orig == before[p].src
           untouched == S = orig /\ T = before[p].tgt
           reserved  == S = orig /\ T = [content |-> <<>>, etag |-> S3ETag(<<>>), lastModified |-> 0]
           copied    == S = orig /\ T = orig
           renamed   == S = NoObject /\ T = orig
       IN /\ S = orig \/ T.content = orig.content
          /\ untouched \/ reserved \/ copied \/ renamed
          /\ pc[p] = "reserved" => reserved
          /\ pc[p] = "copied" => copied
          /\ (pc[p] = "done" /\ res[p].err = NoError) => renamed

\* the rename of a note with content stands between its copy and its delete
C25_Witness ==
  \E p \in Procs :
    /\ call[p].op = "rename" /\ pc[p] = "copied"
    /\ before[p].src.content # <<>>
    /\ call[p].fileName # call[p].newFileName
    /\ touched[p] = {}

(***************************************************************************)
(* C26  Two renames racing for one target.  When renameFile(S1, T) and     *)
(* renameFile(S2, T), S1 and S2 different existing notes and T absent,     *)
(* have both returned and every request reached S3: one returned success   *)
(* and the other ErrAlreadyExists, the source of the other is unchanged,   *)
(* the source of the winner is gone and T holds the object the winner's    *)
(* source held.                                                            *)
(***************************************************************************)
C26_RenameRace ==
  \A p, q \in Procs :
    ( /\ p # q
      /\ Done(p, "rename") /\ Done(q, "rename")
      /\ Answered(p) /\ Answered(q)
      /\ call[p].newFileName = call[q].newFileName
      /\ call[p].fileName # call[q].fileName
      /\ Exists(store0, Key(call[p].fileName))
      /\ Exists(store0, Key(call[q].fileName))
      /\ ~Exists(store0, Key(call[p].newFileName))
      /\ res[p].reqs # <<"PutObject">> )
    => /\ res[p].err = NoError
       /\ res[q].err = ErrAlreadyExists
       /\ res[q].reqs = <<"PutObject">>
       /\ ObjectAt(store, Key(call[q].fileName)) = store0[Key(call[q].fileName)]
       /\ ObjectAt(store, Key(call[p].fileName)) = NoObject
       /\ ObjectAt(store, Key(call[p].newFileName)) = store0[Key(call[p].fileName)]

\* the loser's reservation was refused while the winner stood between two requests
C26_Witness ==
  \E p, q \in Procs :
    /\ p # q
    /\ Done(p, "rename") /\ Done(q, "rename")
    /\ call[p].newFileName = call[q].newFileName
    /\ call[p].fileName # call[q].fileName
    /\ res[p].err = NoError /\ res[q].err = ErrAlreadyExists
    /\ before[q].tgt = [content |-> <<>>, etag |-> S3ETag(<<>>), lastModified |-> 0]
    /\ before[p].src.content # before[q].src.content

(***************************************************************************)
(* C27  No lost update through rename.  As claimed: when renameFile(S, T)  *)
(* and an overwriting saveFileContent of S that ran during it have both    *)
(* returned, the write with success, and every request reached S3, the     *)
(* content written is read at S or at T.                                   *)
(***************************************************************************)
C27_NoLostUpdate ==
  \A p, q \in Procs :
    ( /\ p # q
      /\ Done(p, "rename") /\ Answered(p)
      /\ Done(q, "save") /\ call[q].overwrite /\ res[q].err = NoError
      /\ call[q].fileName = call[p].fileName
      /\ "src" \in touched[p] )
    => LET rS == ReadNow(call[p].fileName)
           rT == ReadNow(call[p].newFileName)
       IN \/ rS.err = NoError /\ rS.content = call[q].content
          \/ rT.err = NoError /\ rT.content = call[q].content

(***************************************************************************)
(* C21  The scenario.  On a namespace that starts empty, with no request   *)
(* failed by the environment and b different from a: the create-only write *)
(* of a succeeds with a fingerprint, the second create-only write of a     *)
(* returns ErrAlreadyExists, the overwriting write succeeds with a         *)
(* fingerprint that differs from the first when the content does, the      *)
(* rename of a to b succeeds, the read of a returns ErrNotFound and the    *)
(* read of b returns the content of the overwriting write.  (The claim's   *)
(* run is a = a.txt, b = b.txt, contents "hello", "x", "world".)           *)
(***************************************************************************)
C21_Scenario ==
  (scn.a # scn.b /\ ~scn.faulty) =>
    /\ scn.step >= 1 => scn.out[1].err = NoError /\ scn.out[1].etag # <<>>
    /\ scn.step >= 2 => scn.out[2].err = ErrAlreadyExists
    /\ scn.step >= 3 =>
         /\ scn.out[3].err = NoError
         /\ scn.c3 # scn.c1 => scn.out[3].etag # scn.out[1].etag
    /\ scn.step >= 4 => scn.out[4].err = NoError
    /\ scn.step >= 5 => scn.out[5].err = ErrNotFound
    /\ scn.step >= 6 =>
         /\ scn.out[6].err = NoError
         /\ scn.out[6].content = scn.c3

\* the claim's run has come to its end
C21_Witness ==
  /\ scn.step = 6 /\ ~scn.faulty
  /\ scn.a = <<"a", ".", "t", "x", "t">> /\ scn.b = <<"b", ".", "t", "x", "t">>
  /\ scn.c1 = <<"h", "e", "l", "l", "o">> /\ scn.c2 = <<"x">>
  /\ scn.c3 = <<"w", "o", "r", "l", "d">>
  /\ scn.out[6].content = <<"w", "o", "r", "l", "d">>

(***************************************************************************)
(* Shorthands for the properties of the HTTP handlers                      *)
(***************************************************************************)
\* the handler has answered a request it passed to its storage function
Called(handler) == http.handler = handler /\ http.called # "none"

FileHandlers ==
  {"handleGetFile", "handlePutFile", "handlePostFile", "handleDeleteFile",
   "handleRenameFile"}

(***************************************************************************)
(* C22  HTTP translation.  The status of the response is determined by the *)
(* error the storage function returned: handleGetFile answers 404 on       *)
(* ErrNotFound and 304 on ErrNotModified, handlePostFile 409 on            *)
(* ErrAlreadyExists, handleRenameFile 404 on ErrNotFound and 409 on        *)
(* ErrAlreadyExists, handleGetFiles 400 on ErrInvalidArgument,             *)
(* handleDeleteFile 204 whether the file existed or not, and every other   *)
(* error in any handler 500 (a success: 200 with a body, else 204).        *)
(***************************************************************************)
C22_HttpTranslation ==
  /\ Called("handleGetFile") =>
       http.resp.status =
         (CASE http.err = NoError -> 200 [] http.err = ErrNotFound -> 404
            [] http.err = ErrNotModified -> 304 [] OTHER -> 500)
  /\ Called("handlePutFile") =>
       http.resp.status = (IF http.err = NoError THEN 204 ELSE 500)
  /\ Called("handlePostFile") =>
       http.resp.status =
         (CASE http.err = NoError -> 204 [] http.err = ErrAlreadyExists -> 409
            [] OTHER -> 500)
  /\ Called("handleRenameFile") =>
       http.resp.status =
         (CASE http.err = NoError -> 204 [] http.err = ErrNotFound -> 404
            [] http.err = ErrAlreadyExists -> 409 [] OTHER -> 500)
  /\ Called("handleGetFiles") =>
       http.resp.status =
         (CASE http.err = NoError -> 200 [] http.err = ErrInvalidArgument -> 400
            [] OTHER -> 500)
  /\ Called("handleDeleteFile") =>
       /\ http.resp.status = (IF http.err = NoError THEN 204 ELSE 500)
       /\ http.faults \in {<<"none">>, <<"nosuchkey">>} => http.resp.status = 204

\* a create-only POST of an existing file has been answered 409
C22_Witness ==
  /\ Called("handlePostFile")
  /\ Exists(store0, Key(http.args.fileName))
  /\ http.err = ErrAlreadyExists
  /\ http.resp.status = 409

(***************************************************************************)
(* C28  Titles reaching the store are valid.  The file name (and, for a    *)
(* rename, the new file name) a handler passes to its storage function,    *)
(* after the unescaping, contains no "/", has at most 200 characters and   *)
(* ends in .txt or .md after a non-empty stem.                             *)
(***************************************************************************)
C28_ValidTitles ==
  (http.handler \in FileHandlers /\ http.called # "none") =>
    /\ isFileNameValid(http.args.fileName)
    /\ http.handler = "handleRenameFile" => isFileNameValid(http.args.newFileName)

(***************************************************************************)
(* C29  Rejected requests have no store effect.  When a handler answers    *)
(* 400 because the binding or the validation of the file name, the new     *)
(* file name, the content size, the etag, the page size or the             *)
(* continuation token failed, no storage function was called and the       *)
(* bucket is as it was.                                                    *)
(***************************************************************************)
C29_RejectedNoEffect ==
  http.rejected # "none" =>
    /\ http.resp.status = 400
    /\ http.called = "none"
    /\ store = store0

\* a PUT of a valid name with a body of 102401 bytes has been rejected
C29_Witness ==
  /\ http.handler = "handlePutFile"
  /\ http.rejected = "content"
  /\ http.contentLen = 102401
  /\ isFileNameValid(http.in.fileName)
  /\ http.resp.status = 400

(***************************************************************************)
(* C30  Page size handed to the store.  The page size handleGetFiles       *)
(* passes to listFiles is between 1 and 1000, and it is 100 when the       *)
(* request named none (0).                                                 *)
(***************************************************************************)
C30_PageSizeRange ==
  Called("handleGetFiles") =>
    /\ http.args.pageSize \in 1..1000
    /\ http.in.pageSize = 0 => http.args.pageSize = PAGE_SIZE_DEFAULT

(***************************************************************************)
(* C32  Listing projection.  The files of a listFiles page are the entries *)
(* S3 returned for the page whose key has a supported suffix, in the order *)
(* S3 returned them; each has the key without the prefix as its name, and  *)
(* the LastModified and ETag of the object at the key; the next token is   *)
(* the one S3 returned, or empty when S3 returned none.                    *)
(***************************************************************************)
C32_ListingProjection ==
  Page =>
    LET out == LastOutput
        idx == { i \in 1..Len(out.contents) : isSupportedFileType(out.contents[i].key) }
        Nth(j) == CHOOSE i \in idx : Cardinality({ k \in idx : k <= i }) = j
    IN /\ Len(list.files) = Cardinality(idx)
       /\ \A j \in 1..Len(list.files) :
            LET key == out.contents[Nth(j)].key
            IN /\ prefix \o list.files[j].fileName = key
               /\ list.files[j].lastModified = store[key].lastModified
               /\ list.files[j].etag = store[key].etag
       /\ list.next = (IF out.next.present THEN out.next.value ELSE <<>>)

\* a page of a note and an entry that is no note, with more to come; the
\* note was modified at another time than the objects the service writes
C32_Witness ==
  /\ Page /\ list.hasMore /\ list.next # <<>>
  /\ Len(LastOutput.contents) = 2
  /\ ~isSupportedFileType(LastOutput.contents[2].key)
  /\ Len(list.files) = 1
  /\ list.files[1].lastModified = 2
  /\ list.files[1].fileName = <<"a", ".", "m", "d">>

Calls(op) == pc["h1"] = "idle" /\ pc'["h1"] = "done" /\ call'["h1"].op = op

C33_ReadOnlyFrame ==
  [][ /\ (Calls("get") \/ Calls("list") \/ list'.calls = list.calls + 1)
           => store' = store
      /\ ((Calls("save") \/ Calls("delete")) /\ res'["h1"].err # NoError)
           => store' = store ]_vars

\* a create-only write of another content to an existing note was refused
\* and the note is as it was before the request
C33_Witness ==
  /\ Done("h1", "save") /\ res["h1"].err = ErrAlreadyExists
  /\ before["h1"].src.content # call["h1"].content
  /\ ObjectAt(store, Key(call["h1"].fileName)) = before["h1"].src
  /\ store = store0

(***************************************************************************)
(* C34  Stale-fingerprint read.  When getFileContent is called with a      *)
(* non-empty etag that differs from the ETag of the object at the key, and *)
(* the request reaches S3 and the body is read, it returns the whole       *)
(* content and the ETag of the object.  So when an overwriting             *)
(* saveFileContent has replaced a note by another content, a               *)
(* getFileContent that finds the note as written and carries the ETag the  *)
(* note had before never returns ErrNotModified.                           *)
(***************************************************************************)
C34_StaleFingerprintRead ==
  /\ \A p \in Procs :
       ( /\ Done(p, "get")
         /\ before[p].src # NoObject
         /\ call[p].etag # <<>> /\ call[p].etag # before[p].src.etag )
       => /\ res[p].err # ErrNotModified
          /\ Answered(p)
               => /\ res[p].err = NoError
                  /\ res[p].content = before[p].src.content
                  /\ res[p].etag = before[p].src.etag
  /\ \A p \in Procs : \A q \in Procs \ {p} :
       ( /\ Done(q, "save") /\ call[q].overwrite /\ res[q].err = NoError
         /\ before[q].src # NoObject
         /\ before[q].src.content # call[q].content
         /\ Done(p, "get")
         /\ call[p].fileName = call[q].fileName
         /\ call[p].etag = before[q].src.etag
         /\ before[p].src.content = call[q].content )
       => /\ res[p].err # ErrNotModified
          /\ Answered(p) => res[p].content = call[q].content /\ res[p].etag = res[q].etag

\* a note was overwritten with another content and then read with the ETag
\* it had before; the read returned the new content and the new ETag
C34_Witness ==
  \E p \in Procs : \E q \in Procs \ {p} :
    /\ Done(q, "save") /\ call[q].overwrite /\ res[q].err = NoError
    /\ before[q].src # NoObject /\ before[q].src.content # call[q].content
    /\ Done(p, "get") /\ Answered(p)
    /\ call[p].fileName = call[q].fileName
    /\ call[p].etag = before[q].src.etag
    /\ res[p].err = NoError
    /\ res[p].content = call[q].content
    /\ res[p].etag = res[q].etag

(***************************************************************************)
(* C35  Rename onto itself.  When renameFile is called with newFileName    *)
(* equal to fileName, the key holds an object and the request reaches S3,  *)
(* it returns ErrAlreadyExists after the reserving PutObject alone, and    *)
(* the object keeps its content and ETag.                                  *)
(***************************************************************************)
C35_RenameOntoItself ==
  \A p \in Procs :
    ( /\ Done(p, "rename") /\ Answered(p)
      /\ call[p].newFileName = call[p].fileName
      /\ before[p].src # NoObject )
    => /\ res[p].err = ErrAlreadyExists
       /\ res[p].reqs = <<"PutObject">>
       /\ touched[p] = {} => ObjectAt(store, Key(call[p].fileName)) = before[p].src

\* a note with content was renamed onto itself
C35_Witness ==
  \E p \in Procs :
    /\ Done(p, "rename") /\ Answered(p) /\ Alone(p)
    /\ call[p].newFileName = call[p].fileName
    /\ before[p].src.content # <<>>
    /\ res[p].err = ErrAlreadyExists
    /\ ReadNow(call[p].fileName).content = before[p].src.content

====
